---- MODULE Spec2Model ----
(***************************************************************************)
(* Model of the go-ai-sdk client core (package ai): the constructors and   *)
(* option functions of types.go, and NewClient, RegisterProvider,          *)
(* mergeConfig and the dispatch entry points of client.go; and of the      *)
(* OpenAI and Anthropic adapters: the HTTP exchange, the clean-up and      *)
(* decoding of a text reply, and the normalisation of tool calls.          *)
(*                                                                         *)
(* Go slices are modelled as references into a heap of backing arrays, so  *)
(* that sharing between the base configuration and an effective            *)
(* configuration is visible.  A slice is [ptr, len]; ptr = 0 is nil.       *)
(* Temperatures are counted in tenths (0.7 is 7).                          *)
(***************************************************************************)
EXTENDS Integers, Sequences, FiniteSets, TLC

VARIABLES
    providers,  \* Client.providers: map[Provider]LLMProvider
    defaults,   \* Client.defaults: the base Config (slices are references)
    heap,       \* backing arrays of the live slices, addressed 1..Len(heap)
    ctorOpts,   \* the options NewClient was called with
    registered, \* for each id, the implementation of its latest registration
    reg,        \* the RegisterProvider call that has just returned, until dropped
    last,       \* the dispatch call that has just returned, until dropped
    merged,     \* the mergeConfig call that has just returned, until dropped
    conv,       \* the conversation a caller has built with the constructors
    extracted,  \* the reconciliation of a reply text that has just ended, until dropped
    adapter,    \* the adapter call that has just returned, until dropped
    wire,       \* the request an adapter has just built, until dropped
    flight,     \* the capability call whose network request is under way
    running     \* the dispatch calls that run concurrently, by caller

vars == <<providers, defaults, heap, ctorOpts, registered, reg, last, merged,
          conv, extracted, adapter, wire, flight, running>>

-----------------------------------------------------------------------------
(* Bounds *)

\* longest sequence of override options of a mergeConfig call
MaxOpts == 2

\* longest sequence of override options of a dispatch call
MaxCallOpts == 1

\* longest run of whitespace around a reply text
MaxPad == 1

\* longest list of tool invocations in an upstream reply
MaxCalls == 2

\* longest conversation a caller builds
MaxConv == 2

\* longest message list of a request
MaxMsgs == 3

-----------------------------------------------------------------------------
(* Program constants *)

\* client.go:26, Temperature: 0.7, in tenths
DefaultTemperature == 7
\* client.go:27
DefaultMaxTokens == 1000

ProviderOpenAI == "openai"

ProviderAnthropic == "anthropic"

\* http.StatusOK
StatusOK == 200

RoleSystem == "system"
RoleUser == "user"
RoleAssistant == "assistant"
RoleTool == "tool"

-----------------------------------------------------------------------------
(* Values *)

NilSlice == [ptr |-> 0, len |-> 0]

\* the elements a slice shows
Elems(h, s) == IF s.ptr = 0 THEN <<>> ELSE SubSeq(h[s.ptr], 1, s.len)

\* make([]T, n) filled with elems, or a slice literal: a fresh backing array
Alloc(h, elems) == [heap |-> Append(h, elems),
                    slice |-> [ptr |-> Len(h) + 1, len |-> Len(elems)]]

\* a variadic parameter: nil when no argument is given, else a fresh array
Variadic(h, elems) ==
    IF Len(elems) = 0 THEN [heap |-> h, slice |-> NilSlice] ELSE Alloc(h, elems)

\* Message constructors of types.go, as values (tool calls by value)
SystemMessage(content) ==
    [Role |-> RoleSystem, Content |-> content, ToolCalls |-> <<>>, ToolCallID |-> ""]
UserMessage(content) ==
    [Role |-> RoleUser, Content |-> content, ToolCalls |-> <<>>, ToolCallID |-> ""]
AssistantMessage(content) ==
    [Role |-> RoleAssistant, Content |-> content, ToolCalls |-> <<>>, ToolCallID |-> ""]
ToolResultMessage(toolCallID, content) ==
    [Role |-> RoleTool, Content |-> content, ToolCalls |-> <<>>, ToolCallID |-> toolCallID]

ToolCall(id, name) == [ID |-> id, Type |-> "function", Tool |-> [Name |-> name]]

FunctionDefinition(name) == [Name |-> name, Description |-> "about " \o name]

\* an assistant message that carries one tool call
AssistantCalling ==
    [Role |-> RoleAssistant, Content |-> "", ToolCalls |-> <<ToolCall("call_123", "get_weather")>>,
     ToolCallID |-> ""]

-----------------------------------------------------------------------------
(* Memory: message structs hold their ToolCalls as a slice *)

\* the caller's Message structs for the given message values: every
\* non-empty ToolCalls literal gets a backing array of its own
RECURSIVE StoreMessages(_, _)
StoreMessages(h, msgs) ==
    IF Len(msgs) = 0 THEN [heap |-> h, elems |-> <<>>]
    ELSE LET m == Head(msgs)
             tc == Variadic(h, m.ToolCalls)
             rest == StoreMessages(tc.heap, Tail(msgs))
         IN [heap |-> rest.heap,
             elems |-> <<[m EXCEPT !.ToolCalls = tc.slice]>> \o rest.elems]

\* a Message struct read back as a value
MessageValue(h, m) == [m EXCEPT !.ToolCalls = Elems(h, m.ToolCalls)]

MessagesValue(h, s) ==
    LET e == Elems(h, s) IN [i \in 1..Len(e) |-> MessageValue(h, e[i])]

\* a Config read back as a value: what its fields show, slices followed
ConfigValue(h, c) ==
    [Provider |-> c.Provider, Model |-> c.Model,
     Messages |-> MessagesValue(h, c.Messages),
     MaxTokens |-> c.MaxTokens, Temperature |-> c.Temperature,
     Tools |-> Elems(h, c.Tools)]

-----------------------------------------------------------------------------
(* types.go: the option functions.  WithX(arg, s) is the closure WithX(arg) *)
(* applied to a Config: s is [heap, config], the memory and the Config the  *)
(* closure is handed, and the result is both as the closure leaves them.    *)

WithProvider(provider, s) == [s EXCEPT !.config.Provider = provider]

WithModel(model, s) == [s EXCEPT !.config.Model = model]

\* WithMessages with c.Messages = append(c.Messages, messages...)
WithMessages_Appends(messages, s) ==
    LET a == Alloc(s.heap, Elems(s.heap, s.config.Messages) \o Elems(s.heap, messages))
    IN [heap |-> a.heap, config |-> [s.config EXCEPT !.Messages = a.slice]]

WithMessages(messages, s) == [s EXCEPT !.config.Messages = messages]

WithMaxTokens(maxTokens, s) == [s EXCEPT !.config.MaxTokens = maxTokens]

WithTemperature(temperature, s) == [s EXCEPT !.config.Temperature = temperature]

\* WithTools with c.Tools = append(c.Tools, tools...)
WithTools_Appends(tools, s) ==
    LET a == Alloc(s.heap, Elems(s.heap, s.config.Tools) \o Elems(s.heap, tools))
    IN [heap |-> a.heap, config |-> [s.config EXCEPT !.Tools = a.slice]]

WithTools(tools, s) == [s EXCEPT !.config.Tools = tools]

\* opt(config): an Option is [kind, arg], the closure and what it captured
ApplyOption(opt, s) ==
    CASE opt.kind = "Provider" -> WithProvider(opt.arg, s)
      [] opt.kind = "Model" -> WithModel(opt.arg, s)
      [] opt.kind = "Messages" -> WithMessages(opt.arg, s)
      [] opt.kind = "MaxTokens" -> WithMaxTokens(opt.arg, s)
      [] opt.kind = "Temperature" -> WithTemperature(opt.arg, s)
      [] opt.kind = "Tools" -> WithTools(opt.arg, s)

\* the options applied from the last to the first
RECURSIVE ApplyOptions_Reversed(_, _)
ApplyOptions_Reversed(options, s) ==
    IF Len(options) = 0 THEN s
    ELSE ApplyOption(Head(options), ApplyOptions_Reversed(Tail(options), s))

\* for _, opt := range options { opt(config) }
RECURSIVE ApplyOptions(_, _)
ApplyOptions(options, s) ==
    IF Len(options) = 0 THEN s
    ELSE ApplyOptions(Tail(options), ApplyOption(Head(options), s))

\* the caller evaluating WithX(args...): a variadic argument list becomes a
\* slice the closure captures.  ov is the call as written, [kind, arg] with
\* the arguments by value.
MakeOption(h, ov) ==
    CASE ov.kind = "Messages" ->
            LET st == StoreMessages(h, ov.arg)
                va == Variadic(st.heap, st.elems)
            IN [heap |-> va.heap, opt |-> [kind |-> ov.kind, arg |-> va.slice]]
      [] ov.kind = "Tools" ->
            LET va == Variadic(h, ov.arg)
            IN [heap |-> va.heap, opt |-> [kind |-> ov.kind, arg |-> va.slice]]
      [] OTHER -> [heap |-> h, opt |-> ov]

RECURSIVE MakeOptions(_, _)
MakeOptions(h, ovs) ==
    IF Len(ovs) = 0 THEN [heap |-> h, opts |-> <<>>]
    ELSE LET o == MakeOption(h, Head(ovs))
             rest == MakeOptions(o.heap, Tail(ovs))
         IN [heap |-> rest.heap, opts |-> <<o.opt>> \o rest.opts]

-----------------------------------------------------------------------------
(* client.go *)

\* NewClient starting from the zero Config, without the two defaults
NewClient_ZeroDefaults(ovs) ==
    LET made == MakeOptions(<<>>, ovs)
        zero == [Provider |-> "", Model |-> "", Messages |-> NilSlice,
                 MaxTokens |-> 0, Temperature |-> 0, Tools |-> NilSlice]
        done == ApplyOptions(made.opts, [heap |-> made.heap, config |-> zero])
    IN [defaults |-> done.config, heap |-> done.heap]

\* NewClient(options...): the client's base Config and the memory it uses
NewClient(ovs) ==
    LET made == MakeOptions(<<>>, ovs)
        zero == [Provider |-> "", Model |-> "", Messages |-> NilSlice,
                 MaxTokens |-> DefaultMaxTokens, Temperature |-> DefaultTemperature,
                 Tools |-> NilSlice]
        done == ApplyOptions(made.opts, [heap |-> made.heap, config |-> zero])
    IN [defaults |-> done.config, heap |-> done.heap]

\* mergeConfig's copy of the base: a new Config with the base's scalar
\* fields and, when the base has messages, a fresh Messages array holding
\* copies of the base's Message structs; Tools is left at its zero value
CopyDefaults(h, d) ==
    LET start == [Provider |-> d.Provider, Model |-> d.Model, Messages |-> NilSlice,
                  MaxTokens |-> d.MaxTokens, Temperature |-> d.Temperature,
                  Tools |-> NilSlice]
    IN IF d.Messages.len > 0
       THEN LET a == Alloc(h, Elems(h, d.Messages))
            IN [heap |-> a.heap, config |-> [start EXCEPT !.Messages = a.slice]]
       ELSE [heap |-> h, config |-> start]

\* mergeConfig with config := c.defaults: the options are applied to the base
mergeConfig_OnDefaults(h, d, options) ==
    LET done == ApplyOptions(options, [heap |-> h, config |-> d])
    IN [heap |-> done.heap, config |-> done.config, defaults |-> done.config]

\* c.mergeConfig(options...): the new Config, the memory, and the Config
\* c.defaults points to as the call leaves it
mergeConfig(h, d, options) ==
    LET done == ApplyOptions(options, CopyDefaults(h, d))
    IN [heap |-> done.heap, config |-> done.config, defaults |-> d]

-----------------------------------------------------------------------------
(* Errors.  An error value is [id, text, wraps]: which value it is, the     *)
(* pieces of its Error() text, and the id of the error it wraps ("none").   *)

Nil == [id |-> "nil", text |-> <<>>, wraps |-> "none"]

\* errors.New(text), kept in a package variable named id
NewError(id, text) == [id |-> id, text |-> <<text>>, wraps |-> "none"]

ErrProviderNotSupported == NewError("ErrProviderNotSupported", "provider not supported")

ErrModelNotSpecified == NewError("ErrModelNotSpecified", "model not specified")

\* the error of a tool-call request that declares no tool
ErrNoToolsSpecified == NewError("ErrNoToolsSpecified", "no tools specified")

\* fmt.Errorf("%w: %s", err, str)
Errorf(err, str) == [id |-> "fmt.wrapError", text |-> err.text \o <<": ", str>>, wraps |-> err.id]

\* errors.Is(err, target)
ErrorsIs(err, target) == err.id = target.id \/ err.wraps = target.id

-----------------------------------------------------------------------------
(* Providers.  An LLMProvider is an implementation outside the client; a    *)
(* call of one of its capabilities behaves as beh says: it returns beh.val  *)
(* and beh.err, sends beh.requests HTTP requests, and may write through the *)
(* *Config it was handed (beh.mut); the call is recorded with whether it    *)
(* changed memory (wrote).                                                  *)

Capabilities == {"GetText", "GetObject", "GetToolCalls"}

\* what a capability returns beside the error when it fails
ZeroValue(cap) ==
    CASE cap = "GetText" -> ""
      [] cap = "GetObject" -> [Message |-> ""]
      [] cap = "GetToolCalls" -> <<>>

\* the index of the first message of the slice that has tool calls, or 0
FirstCalling(h, s) ==
    LET e == Elems(h, s)
        S == {i \in 1..Len(e) : e[i].ToolCalls.len > 0}
    IN IF S = {} THEN 0 ELSE CHOOSE i \in S : \A j \in S : i <= j

\* append(s, x): in place when the array has room, else a new array
AppendSlice(h, s, x) ==
    IF s.ptr # 0 /\ s.len < Len(h[s.ptr])
    THEN [heap |-> [h EXCEPT ![s.ptr][s.len + 1] = x],
          slice |-> [s EXCEPT !.len = s.len + 1]]
    ELSE Alloc(h, Elems(h, s) \o <<x>>)

\* the memory after the holder of config wrote through it as mut says
Mutate(h, config, mut) ==
    CASE mut = "setMessage" ->
            IF config.Messages.len > 0
            THEN [h EXCEPT ![config.Messages.ptr][1] =
                      [UserMessage("changed") EXCEPT !.ToolCalls = NilSlice]]
            ELSE h
      [] mut = "editToolCall" ->
            LET i == FirstCalling(h, config.Messages)
            IN IF i > 0
               THEN [h EXCEPT ![h[config.Messages.ptr][i].ToolCalls.ptr][1].ID = "changed"]
               ELSE h
      [] mut = "appendMessage" ->
            AppendSlice(h, config.Messages,
                        [UserMessage("more") EXCEPT !.ToolCalls = NilSlice]).heap
      [] mut = "setTool" ->
            IF config.Tools.len > 0
            THEN [h EXCEPT ![config.Tools.ptr][1] = FunctionDefinition("changed")]
            ELSE h
      [] OTHER -> h

\* provider.<cap>(ctx, config[, target]) on implementation impl
Invoke(impl, cap, h, config, beh) ==
    [heap |-> Mutate(h, config, beh.mut),
     ret |-> [val |-> beh.val, err |-> beh.err],
     call |-> [impl |-> impl, cap |-> cap, config |-> ConfigValue(h, config),
               ret |-> [val |-> beh.val, err |-> beh.err],
               wrote |-> Mutate(h, config, beh.mut) # h],
     requests |-> beh.requests]

-----------------------------------------------------------------------------
(* client.go: the registry and the dispatch entry points.  c is the client  *)
(* and the memory, [providers, defaults, heap].                             *)

\* RegisterProvider that keeps an entry the id already has
RegisterProviderMap_KeepFirst(provs, provider, impl) ==
    [id \in DOMAIN provs \cup {provider} |-> IF id \in DOMAIN provs THEN provs[id] ELSE impl]

\* c.providers[provider] = impl
RegisterProviderMap(provs, provider, impl) ==
    [id \in DOMAIN provs \cup {provider} |-> IF id = provider THEN impl ELSE provs[id]]

\* a dispatch call that returns before any provider is invoked
Failed(m, cap, err) ==
    [heap |-> m.heap, defaults |-> m.defaults, eff |-> ConfigValue(m.heap, m.config),
     ret |-> [val |-> ZeroValue(cap), err |-> err], invoked |-> <<>>, requests |-> 0]

\* the provider's error wrapped with the provider id before it is returned
Routed_Wrapped(c, m, cap, beh) ==
    LET r == Invoke(c.providers[m.config.Provider], cap, m.heap, m.config, beh)
    IN [heap |-> r.heap, defaults |-> m.defaults, eff |-> ConfigValue(m.heap, m.config),
        ret |-> [val |-> r.ret.val,
                 err |-> IF r.ret.err = Nil THEN Nil ELSE Errorf(r.ret.err, m.config.Provider)],
        invoked |-> <<r.call>>, requests |-> r.requests]

\* return provider.<cap>(ctx, config[, target])
Routed(c, m, cap, beh) ==
    LET r == Invoke(c.providers[m.config.Provider], cap, m.heap, m.config, beh)
    IN [heap |-> r.heap, defaults |-> m.defaults, eff |-> ConfigValue(m.heap, m.config),
        ret |-> r.ret, invoked |-> <<r.call>>, requests |-> r.requests]

\* GetText without the check of config.Model
GetText_NoModelCheck(c, options, beh) ==
    LET m == mergeConfig(c.heap, c.defaults, options)
    IN IF m.config.Provider \notin DOMAIN c.providers
       THEN Failed(m, "GetText", Errorf(ErrProviderNotSupported, m.config.Provider))
       ELSE Routed(c, m, "GetText", beh)

\* c.GetText(ctx, options...)
GetText(c, options, beh) ==
    LET m == mergeConfig(c.heap, c.defaults, options)
    IN IF m.config.Model = ""
       THEN Failed(m, "GetText", ErrModelNotSpecified)
       ELSE IF m.config.Provider \notin DOMAIN c.providers
            THEN Failed(m, "GetText", Errorf(ErrProviderNotSupported, m.config.Provider))
            ELSE Routed(c, m, "GetText", beh)

\* GetObject formatting the lookup error with %v: the text is the same and
\* nothing is wrapped
GetObject_Unwrapped(c, options, beh) ==
    LET m == mergeConfig(c.heap, c.defaults, options)
    IN IF m.config.Model = ""
       THEN Failed(m, "GetObject", ErrModelNotSpecified)
       ELSE IF m.config.Provider \notin DOMAIN c.providers
            THEN Failed(m, "GetObject",
                        [Errorf(ErrProviderNotSupported, m.config.Provider)
                             EXCEPT !.id = "errors.errorString", !.wraps = "none"])
            ELSE Routed(c, m, "GetObject", beh)

\* GetObject looking the provider up before it checks the model
GetObject_LookupFirst(c, options, beh) ==
    LET m == mergeConfig(c.heap, c.defaults, options)
    IN IF m.config.Provider \notin DOMAIN c.providers
       THEN Failed(m, "GetObject", Errorf(ErrProviderNotSupported, m.config.Provider))
       ELSE IF m.config.Model = ""
            THEN Failed(m, "GetObject", ErrModelNotSpecified)
            ELSE Routed(c, m, "GetObject", beh)

\* c.GetObject(ctx, target, options...)
GetObject(c, options, beh) ==
    LET m == mergeConfig(c.heap, c.defaults, options)
    IN IF m.config.Model = ""
       THEN Failed(m, "GetObject", ErrModelNotSpecified)
       ELSE IF m.config.Provider \notin DOMAIN c.providers
            THEN Failed(m, "GetObject", Errorf(ErrProviderNotSupported, m.config.Provider))
            ELSE Routed(c, m, "GetObject", beh)

\* GetToolCalls handing a request without tools to the provider
GetToolCalls_NoToolsCheck(c, options, beh) ==
    LET m == mergeConfig(c.heap, c.defaults, options)
    IN IF m.config.Model = ""
       THEN Failed(m, "GetToolCalls", ErrModelNotSpecified)
       ELSE IF m.config.Provider \notin DOMAIN c.providers
            THEN Failed(m, "GetToolCalls", Errorf(ErrProviderNotSupported, m.config.Provider))
            ELSE Routed(c, m, "GetToolCalls", beh)

\* c.GetToolCalls(ctx, options...): the steps of GetText, and a request
\* without tools fails before the provider is invoked
GetToolCalls(c, options, beh) ==
    LET m == mergeConfig(c.heap, c.defaults, options)
    IN IF m.config.Model = ""
       THEN Failed(m, "GetToolCalls", ErrModelNotSpecified)
       ELSE IF m.config.Provider \notin DOMAIN c.providers
            THEN Failed(m, "GetToolCalls", Errorf(ErrProviderNotSupported, m.config.Provider))
            ELSE IF m.config.Tools.len = 0
                 THEN Failed(m, "GetToolCalls", ErrNoToolsSpecified)
                 ELSE Routed(c, m, "GetToolCalls", beh)

-----------------------------------------------------------------------------
(* Strings: a Go string is the sequence of its characters *)

\* the backtick character, which a TLA+ string cannot hold
Backtick == "<backtick>"

\* the fence marker: three backticks
Fence == <<Backtick, Backtick, Backtick>>

FenceJson == Fence \o <<"j", "s", "o", "n">>

NL == <<"\n">>

\* unicode.IsSpace on the characters that occur
IsSpace(ch) == ch \in {" ", "\n", "\t", "\r"}

RECURSIVE TrimLeft(_)
TrimLeft(s) == IF s # <<>> /\ IsSpace(Head(s)) THEN TrimLeft(Tail(s)) ELSE s

RECURSIVE TrimRight(_)
TrimRight(s) ==
    IF s # <<>> /\ IsSpace(s[Len(s)]) THEN TrimRight(SubSeq(s, 1, Len(s) - 1)) ELSE s

\* strings.TrimSpace(s)
TrimSpace(s) == TrimRight(TrimLeft(s))

\* strings.HasPrefix(s, prefix)
HasPrefix(s, prefix) == Len(s) >= Len(prefix) /\ SubSeq(s, 1, Len(prefix)) = prefix

\* strings.TrimPrefix(s, prefix)
TrimPrefix(s, prefix) == IF HasPrefix(s, prefix) THEN SubSeq(s, Len(prefix) + 1, Len(s)) ELSE s

\* strings.LastIndex(s, substr): the 0-based index of the last occurrence, or -1
LastIndex(s, substr) ==
    LET at == {i \in 0..(Len(s) - Len(substr)) : SubSeq(s, i + 1, i + Len(substr)) = substr}
    IN IF at = {} THEN -1 ELSE CHOOSE i \in at : \A j \in at : j <= i

\* strings.Contains(s, substr)
Contains(s, substr) == LastIndex(s, substr) # -1

\* the Go string as one value, as %s prints it
RECURSIVE Str(_)
Str(s) == IF s = <<>> THEN "" ELSE Head(s) \o Str(Tail(s))

-----------------------------------------------------------------------------
(* Adapters: reconciling a text reply with the target (GetObject) *)

\* {"m":1}
DocMessage == <<"{", "\"", "m", "\"", ":", "1", "}">>

\* {"m":"F"} with the fence marker for F: a document whose string holds a fence marker
DocFenced == <<"{", "\"", "m", "\"", ":", "\"">> \o Fence \o <<"\"", "}">>

\* the texts that occur and are JSON documents
JSONDocs == {DocMessage, DocFenced}

\* the target before the decoder has written it
Untouched == [m |-> "untouched"]

SyntaxError(data) ==
    IF data = <<>>
    THEN NewError("json.SyntaxError", "unexpected end of JSON input")
    ELSE NewError("json.SyntaxError", "invalid character " \o Head(data))

\* json.Unmarshal([]byte(data), target)
Unmarshal(data) ==
    IF data \in JSONDocs
    THEN [val |-> [m |-> Str(SubSeq(data, 6, Len(data) - 1))], err |-> Nil]
    ELSE [val |-> Untouched, err |-> SyntaxError(data)]

\* the text cut at its first fence marker, when there is one
CutAtLastFence_First(jsonStr) ==
    LET at == {i \in 0..(Len(jsonStr) - Len(Fence)) : SubSeq(jsonStr, i + 1, i + Len(Fence)) = Fence}
    IN IF at = {} THEN jsonStr ELSE SubSeq(jsonStr, 1, CHOOSE i \in at : \A j \in at : i <= j)

\* jsonStr[:idx] at the last fence marker, when there is one
CutAtLastFence(jsonStr) ==
    LET idx == LastIndex(jsonStr, Fence)
    IN IF idx # -1 THEN SubSeq(jsonStr, 1, idx) ELSE jsonStr

\* the clean-up ending before the closing strings.TrimSpace
OpenAICandidate_NoFinalTrim(textResp) ==
    LET jsonStr == TrimSpace(textResp)
    IN IF HasPrefix(jsonStr, FenceJson)
       THEN CutAtLastFence(TrimPrefix(jsonStr, FenceJson))
       ELSE IF HasPrefix(jsonStr, Fence)
            THEN CutAtLastFence(TrimPrefix(jsonStr, Fence))
            ELSE jsonStr

\* openai GetObject: the text handed to the decoder
OpenAICandidate(textResp) ==
    LET jsonStr == TrimSpace(textResp)
    IN TrimSpace(IF HasPrefix(jsonStr, FenceJson)
                 THEN CutAtLastFence(TrimPrefix(jsonStr, FenceJson))
                 ELSE IF HasPrefix(jsonStr, Fence)
                      THEN CutAtLastFence(TrimPrefix(jsonStr, Fence))
                      ELSE jsonStr)

\* the clean-up without the branch of the opener tagged json
AnthropicCandidate_BareFenceOnly(text) ==
    LET jsonStr == TrimSpace(text)
    IN TrimSpace(IF HasPrefix(jsonStr, Fence)
                 THEN CutAtLastFence(TrimPrefix(jsonStr, Fence))
                 ELSE jsonStr)

\* anthropic GetObject: the text handed to the decoder
AnthropicCandidate(text) ==
    LET jsonStr == TrimSpace(text)
    IN TrimSpace(IF HasPrefix(jsonStr, FenceJson)
                 THEN CutAtLastFence(TrimPrefix(jsonStr, FenceJson))
                 ELSE IF HasPrefix(jsonStr, Fence)
                      THEN CutAtLastFence(TrimPrefix(jsonStr, Fence))
                      ELSE jsonStr)

\* fmt.Errorf("failed to unmarshal JSON response: %w: %s", err, jsonStr)
DecodeFailure(err, jsonStr) ==
    [id |-> "fmt.wrapError",
     text |-> <<"failed to unmarshal JSON response: ">> \o err.text \o <<": ", Str(jsonStr)>>,
     wraps |-> err.id]

\* the decoding step reporting the reply text in place of the candidate
OpenAIDecode_ReportsReply(textResp) ==
    LET jsonStr == OpenAICandidate(textResp)
        dec == Unmarshal(jsonStr)
    IN [candidate |-> jsonStr, val |-> dec.val,
        err |-> IF dec.err # Nil THEN DecodeFailure(dec.err, textResp) ELSE Nil]

\* openai GetObject from the text reply on: clean-up and decoding
OpenAIDecode(textResp) ==
    LET jsonStr == OpenAICandidate(textResp)
        dec == Unmarshal(jsonStr)
    IN [candidate |-> jsonStr, val |-> dec.val,
        err |-> IF dec.err # Nil THEN DecodeFailure(dec.err, jsonStr) ELSE Nil]

\* anthropic GetObject from the text of the first content block on
AnthropicDecode(text) ==
    LET jsonStr == AnthropicCandidate(text)
        dec == Unmarshal(jsonStr)
    IN [candidate |-> jsonStr, val |-> dec.val,
        err |-> IF dec.err # Nil THEN DecodeFailure(dec.err, jsonStr) ELSE Nil]

AdapterKinds == {"openai", "anthropic"}

Decode(kind, text) == IF kind = "openai" THEN OpenAIDecode(text) ELSE AnthropicDecode(text)

-----------------------------------------------------------------------------
(* Inputs *)

\* the ids callers use: the zero value of Provider and a named one
ProviderIds == {"", ProviderOpenAI}

Models == {"", "test-model"}

MessageLists == {<<>>, <<UserMessage("hi")>>, <<AssistantCalling, UserMessage("hi")>>}

TokenLimits == {500, 2000}

Temperatures == {2, 9}

ToolLists == {<<>>, <<FunctionDefinition("get_weather")>>,
              <<FunctionDefinition("get_time"), FunctionDefinition("get_weather")>>}

\* the implementations a caller registers
Impls == {"implA", "implB"}

\* an error of the provider's own
ErrUpstream == NewError("ErrUpstream", "OpenAI API error: Invalid model")

ErrEmptyAPIKey == NewError("ErrEmptyAPIKey", "OpenAI API key is empty")

\* what a capability returns when it succeeds
SuccessValue(cap) ==
    CASE cap = "GetText" -> "Hello, world!"
      [] cap = "GetObject" -> [Message |-> "Hello, world!"]
      [] cap = "GetToolCalls" -> <<ToolCall("call_123", "get_weather")>>

Behaviour(val, err, requests, mut) ==
    [val |-> val, err |-> err, requests |-> requests, mut |-> mut]

\* the ways a call of capability cap on a provider goes
Behaviours(cap) ==
    {Behaviour(SuccessValue(cap), Nil, 1, mut) :
         mut \in {"none", "setMessage", "editToolCall", "appendMessage", "setTool"}}
        \cup {Behaviour(ZeroValue(cap), ErrUpstream, 1, "none"),
              Behaviour(ZeroValue(cap), ErrEmptyAPIKey, 0, "none")}

Fields == {"Provider", "Model", "Messages", "MaxTokens", "Temperature", "Tools"}

FieldValues(f) ==
    CASE f = "Provider" -> ProviderIds
      [] f = "Model" -> Models
      [] f = "Messages" -> MessageLists
      [] f = "MaxTokens" -> TokenLimits
      [] f = "Temperature" -> Temperatures
      [] f = "Tools" -> ToolLists

\* the option calls a caller can write
OptionCalls == UNION {{[kind |-> f, arg |-> v] : v \in FieldValues(f)} : f \in Fields}

OptionSeqs == UNION {[1..n -> OptionCalls] : n \in 0..MaxOpts}

CallOptionSeqs == UNION {[1..n -> OptionCalls] : n \in 0..MaxCallOpts}

Opt(f, v) == [kind |-> f, arg |-> v]

\* the ways the client is constructed
Constructions ==
    { <<>>,
      <<Opt("Provider", ProviderOpenAI), Opt("Model", "test-model"),
        Opt("Temperature", 5), Opt("MaxTokens", 500)>>,
      <<Opt("Model", "test-model"),
        Opt("Messages", <<AssistantCalling, UserMessage("base")>>)>>,
      <<Opt("Provider", ProviderOpenAI), Opt("Messages", <<SystemMessage("base")>>),
        Opt("Tools", <<FunctionDefinition("get_base")>>)>>,
      <<Opt("Model", "test-model"), Opt("Tools", <<FunctionDefinition("get_weather")>>)>>,
      <<Opt("Temperature", 2), Opt("MaxTokens", 2000), Opt("Temperature", 9)>> }

\* runs of whitespace
Pads == UNION {[1..n -> {" ", "\n"}] : n \in 0..MaxPad}

\* the language tags of an opener: none, json, and another language
Tags == {<<>>, <<"j", "s", "o", "n">>, <<"j", "s">>}

Prose == <<"o", "k">>

Payloads == {DocMessage, DocFenced, Prose, <<>>}

\* the reply texts of the model: an optional opener with its tag, a payload,
\* an optional closing fence, and what surrounds them; what follows may be
\* prose, or prose and one more fence marker
ReplyParts ==
    {p \in [lead : Pads, open : {<<>>, Fence}, tag : Tags, sep : {<<>>, NL},
            payload : Payloads, close : {<<>>, Fence, NL \o Fence},
            trail : Pads \cup {<<" ">> \o Prose, NL \o Prose \o NL \o Fence}] :
        p.open = <<>> => (p.tag = <<>> /\ p.sep = <<>>)}

ReplyText(p) == p.lead \o p.open \o p.tag \o p.sep \o p.payload \o p.close \o p.trail

-----------------------------------------------------------------------------
(* Adapters: the HTTP exchange.  An adapter p is [kind, apiKey].  A reply   *)
(* is [status, body]; a body is its text, whether it parses as the          *)
(* adapter's Response, and the Response it parses to.  The choices of an    *)
(* OpenAI Response and the content blocks of an Anthropic Response are the  *)
(* sequence Choices.                                                        *)

APIName(kind) == IF kind = "openai" THEN "OpenAI" ELSE "Anthropic"

EmptyAPIKeyError(kind) ==
    IF kind = "openai"
    THEN ErrEmptyAPIKey
    ELSE NewError("anthropic.ErrEmptyAPIKey", "Anthropic API key is empty")

InvalidResponseError(kind) ==
    IF kind = "openai"
    THEN NewError("ErrInvalidResponse", "invalid response from OpenAI API")
    ELSE NewError("anthropic.ErrInvalidResponse", "invalid response from Anthropic API")

\* %d of a status code
Itoa(status) == CASE status = 200 -> "200" [] status = 400 -> "400" [] status = 500 -> "500"

\* fmt.Errorf("OpenAI API error: %s", errResp.Error.Message)
APIError(kind, message) ==
    [id |-> "fmt.errorString", text |-> <<APIName(kind) \o " API error: ", message>>,
     wraps |-> "none"]

\* fmt.Errorf("OpenAI API returned status code %d: %s", resp.StatusCode, body)
StatusError(kind, status, body) ==
    [id |-> "fmt.errorString",
     text |-> <<APIName(kind) \o " API returned status code ", Itoa(status), ": ", body>>,
     wraps |-> "none"]

\* fmt.Errorf("failed to unmarshal response: %w", err)
UnmarshalError ==
    [id |-> "fmt.wrapError", text |-> <<"failed to unmarshal response: ", "invalid character">>,
     wraps |-> "json.SyntaxError"]

NoAPIError == [set |-> FALSE, Message |-> ""]

EmptyResponse == [Error |-> NoAPIError, Choices |-> <<>>]

\* from the reply to the parsed Response, or the error of the exchange
Exchange(kind, reply) ==
    IF reply.status # StatusOK
    THEN [resp |-> EmptyResponse,
          err |-> IF reply.body.json /\ reply.body.resp.Error.set
                  THEN APIError(kind, reply.body.resp.Error.Message)
                  ELSE StatusError(kind, reply.status, reply.body.raw)]
    ELSE IF ~reply.body.json
         THEN [resp |-> EmptyResponse, err |-> UnmarshalError]
         ELSE [resp |-> reply.body.resp, err |-> Nil]

\* the text of the reply handed back although it is empty
FirstText_AllowsEmpty(kind, reply) ==
    LET x == Exchange(kind, reply)
    IN IF x.err # Nil
       THEN [val |-> <<>>, err |-> x.err]
       ELSE IF Len(x.resp.Choices) = 0
            THEN [val |-> <<>>, err |-> Nil]
            ELSE [val |-> x.resp.Choices[1].Content, err |-> Nil]

\* the exchange and the text of the first choice (content block)
FirstText(kind, reply) ==
    LET x == Exchange(kind, reply)
    IN IF x.err # Nil
       THEN [val |-> <<>>, err |-> x.err]
       ELSE IF Len(x.resp.Choices) = 0 \/ x.resp.Choices[1].Content = <<>>
            THEN [val |-> <<>>, err |-> InvalidResponseError(kind)]
            ELSE [val |-> x.resp.Choices[1].Content, err |-> Nil]

\* a capability returns val and err after that many requests; it writes nothing
Outcome(val, err, requests) == Behaviour(val, err, requests, "none")

\* p.GetText(ctx, config)
AdapterGetText(p, reply) ==
    IF p.apiKey = ""
    THEN Outcome(<<>>, EmptyAPIKeyError(p.kind), 0)
    ELSE LET t == FirstText(p.kind, reply) IN Outcome(t.val, t.err, 1)

\* GetObject that sends the request before it looks at the key
AdapterGetObject_KeyCheckedLate(p, reply) ==
    LET t == FirstText(p.kind, reply)
    IN IF p.apiKey = ""
       THEN Outcome(Untouched, EmptyAPIKeyError(p.kind), 1)
       ELSE IF t.err # Nil
            THEN Outcome(Untouched, t.err, 1)
            ELSE LET d == Decode(p.kind, t.val) IN Outcome(d.val, d.err, 1)

\* p.GetObject(ctx, config, target)
AdapterGetObject(p, reply) ==
    IF p.apiKey = ""
    THEN Outcome(Untouched, EmptyAPIKeyError(p.kind), 0)
    ELSE LET t == FirstText(p.kind, reply)
         IN IF t.err # Nil
            THEN Outcome(Untouched, t.err, 1)
            ELSE LET d == Decode(p.kind, t.val) IN Outcome(d.val, d.err, 1)

\* the normalised list in the reverse of the upstream order
NormalizeToolCalls_Reversed(calls) ==
    [i \in 1..Len(calls) |->
        [ID |-> calls[Len(calls) + 1 - i].ID, Type |-> calls[Len(calls) + 1 - i].Type,
         Tool |-> [Name |-> calls[Len(calls) + 1 - i].Function.Name]]]

\* the tool invocations of the upstream message as ToolCalls, in their order
NormalizeToolCalls(calls) ==
    [i \in 1..Len(calls) |->
        [ID |-> calls[i].ID, Type |-> calls[i].Type,
         Tool |-> [Name |-> calls[i].Function.Name]]]

\* GetToolCalls taking a reply without tool invocations for an invalid one
AdapterGetToolCalls_EmptyIsInvalid(p, config, reply) ==
    IF p.apiKey = ""
    THEN Outcome(<<>>, EmptyAPIKeyError(p.kind), 0)
    ELSE IF Len(config.Tools) = 0
         THEN Outcome(<<>>, ErrNoToolsSpecified, 0)
         ELSE LET x == Exchange(p.kind, reply)
              IN IF x.err # Nil
                 THEN Outcome(<<>>, x.err, 1)
                 ELSE IF Len(x.resp.Choices) = 0 \/ Len(x.resp.Choices[1].ToolCalls) = 0
                      THEN Outcome(<<>>, InvalidResponseError(p.kind), 1)
                      ELSE Outcome(NormalizeToolCalls(x.resp.Choices[1].ToolCalls), Nil, 1)

\* p.GetToolCalls(ctx, config)
AdapterGetToolCalls(p, config, reply) ==
    IF p.apiKey = ""
    THEN Outcome(<<>>, EmptyAPIKeyError(p.kind), 0)
    ELSE IF Len(config.Tools) = 0
         THEN Outcome(<<>>, ErrNoToolsSpecified, 0)
         ELSE LET x == Exchange(p.kind, reply)
              IN IF x.err # Nil
                 THEN Outcome(<<>>, x.err, 1)
                 ELSE IF Len(x.resp.Choices) = 0
                      THEN Outcome(<<>>, InvalidResponseError(p.kind), 1)
                      ELSE Outcome(NormalizeToolCalls(x.resp.Choices[1].ToolCalls), Nil, 1)

\* the capabilities the adapter of a kind has
CapsOf(kind) == IF kind = "openai" THEN Capabilities ELSE {"GetText", "GetObject"}

\* what capability cap of adapter p does with config when the server replies reply
AdapterBehaviour(p, cap, config, reply) ==
    CASE cap = "GetText" -> AdapterGetText(p, reply)
      [] cap = "GetObject" -> AdapterGetObject(p, reply)
      [] cap = "GetToolCalls" -> AdapterGetToolCalls(p, config, reply)

(* Inputs of the adapters *)

Adapters == [kind : AdapterKinds, apiKey : {"", "test-key"}]

ProviderId(kind) == IF kind = "openai" THEN ProviderOpenAI ELSE ProviderAnthropic

Statuses == {StatusOK, 400, 500}

\* the texts of a choice: none, prose, a document, a fenced document
Contents == {<<>>, Prose, DocMessage, FenceJson \o NL \o DocMessage \o NL \o Fence}

UpstreamCall(id, name) == [ID |-> id, Type |-> "function", Function |-> [Name |-> name]]

UpstreamCalls ==
    UNION {[1..n -> {UpstreamCall("call_1", "get_weather"), UpstreamCall("call_2", "get_time")}] :
               n \in 0..MaxCalls}

Choice(content, calls) == [Content |-> content, ToolCalls |-> calls]

InvalidModel == [set |-> TRUE, Message |-> "Invalid model"]

Responses ==
    {EmptyResponse,
     [Error |-> InvalidModel, Choices |-> <<>>],
     [Error |-> InvalidModel, Choices |-> <<Choice(Prose, <<>>)>>],
     [Error |-> NoAPIError, Choices |-> <<Choice(<<>>, <<>>), Choice(Prose, <<>>)>>]}
        \cup {[Error |-> NoAPIError, Choices |-> <<Choice(c, <<>>)>>] : c \in Contents}
        \cup {[Error |-> NoAPIError, Choices |-> <<Choice(c, calls)>>] :
                  c \in {<<>>, Prose}, calls \in UpstreamCalls}

\* the text of the body a Response is parsed from
RawOf(resp) ==
    IF resp.Error.set
    THEN "{\"error\":{\"message\":\"" \o resp.Error.Message \o "\"}}"
    ELSE IF resp.Choices = <<>> THEN "{}" ELSE "{\"choices\":[...]}"

Body(resp) == [raw |-> RawOf(resp), json |-> TRUE, resp |-> resp]

\* a body that is no JSON
BadGateway == [raw |-> "Bad Gateway", json |-> FALSE, resp |-> EmptyResponse]

\* every body under the success status; under the others a body that is no
\* JSON, an error payload, an empty Response and a Response with text
Replies ==
    [status : {StatusOK}, body : {BadGateway} \cup {Body(resp) : resp \in Responses}]
        \cup [status : Statuses \ {StatusOK},
              body : {BadGateway, Body([Error |-> InvalidModel, Choices |-> <<>>]),
                      Body(EmptyResponse),
                      Body([Error |-> NoAPIError, Choices |-> <<Choice(Prose, <<>>)>>])}]

GetWeather == <<FunctionDefinition("get_weather")>>

\* the Config a provider test hands to the adapter
DirectConfigs ==
    {[Provider |-> "", Model |-> "test-model", Messages |-> <<UserMessage("hi")>>,
      MaxTokens |-> 0, Temperature |-> 0, Tools |-> tools] : tools \in {<<>>, GetWeather}}

\* the options of a call through the client: the provider and the model,
\* and after them the tools or none
ClientCallOptions ==
    {<<Opt("Provider", id), Opt("Model", "test-model")>> \o tools :
         id \in {ProviderOpenAI, ProviderAnthropic},
         tools \in {<<>>, <<Opt("Tools", <<>>)>>, <<Opt("Tools", GetWeather)>>}}

-----------------------------------------------------------------------------
(* Adapters: the request.  A capability is handed the memory h and the      *)
(* Config config; it leaves both as the result says and sends the request   *)
(* body request.  The system parameter is the sequence of its pieces.       *)

\* %T of the target of a provider test
TargetType == "*openai.TestResponse"

\* the content of the system message GetObject prepares
JSONInstruction ==
    "You are a helpful assistant that responds with JSON matching the " \o TargetType
        \o " type. Your response should be valid JSON and nothing else."

\* openai convertMessages in the reverse of the order of the messages
OpenAIConvertMessages_Reversed(messages) ==
    [i \in 1..Len(messages) |->
        [Role |-> messages[Len(messages) + 1 - i].Role,
         Content |-> messages[Len(messages) + 1 - i].Content]]

\* openai convertMessages(messages)
OpenAIConvertMessages(messages) ==
    [i \in 1..Len(messages) |-> [Role |-> messages[i].Role, Content |-> messages[i].Content]]

\* the role string the Anthropic adapter sends for a role
AnthropicRole(role) ==
    IF role = RoleAssistant THEN "assistant" ELSE IF role = RoleUser THEN "user" ELSE role

\* the loop of anthropic convertMessages over the messages left, with the
\* result and the system message it has so far
RECURSIVE AnthropicConvertFrom(_, _, _)
AnthropicConvertFrom(messages, result, systemMessage) ==
    IF messages = <<>>
    THEN [messages |-> result, system |-> systemMessage]
    ELSE IF Head(messages).Role = RoleSystem
         THEN AnthropicConvertFrom(Tail(messages), result, Head(messages).Content)
         ELSE AnthropicConvertFrom(Tail(messages),
                                   Append(result, [Role |-> AnthropicRole(Head(messages).Role),
                                                   Content |-> Head(messages).Content]),
                                   systemMessage)

\* anthropic convertMessages(messages)
AnthropicConvertMessages(messages) == AnthropicConvertFrom(messages, <<>>, "")

\* the pieces of a system parameter; omitempty leaves an empty one out
SystemPieces(text) == IF text = "" THEN <<>> ELSE <<text>>

\* what a capability did: the memory and the Config as it leaves them, the
\* messages it handed to convertMessages, and the request body
Sending(h, config, handed, model, messages, system, maxTokens, temperature) ==
    [heap |-> h, config |-> config, handed |-> handed,
     request |-> [Model |-> model, Messages |-> messages, System |-> system,
                  MaxTokens |-> maxTokens, Temperature |-> temperature]]

\* openai GetText up to the request
OpenAIGetTextRequest(h, config) ==
    Sending(h, config, MessagesValue(h, config.Messages), config.Model,
            OpenAIConvertMessages(Elems(h, config.Messages)), <<>>,
            config.MaxTokens, config.Temperature)

\* has a message of the slice the System role
HasSystemMsg(h, messages) ==
    \E i \in 1..messages.len : Elems(h, messages)[i].Role = RoleSystem

\* the ai.Message GetObject prepares, as a struct
SystemMsg == [SystemMessage(JSONInstruction) EXCEPT !.ToolCalls = NilSlice]

\* append([]ai.Message{systemMsg}, messages...): a new array
PrependSystemMsg(h, messages) == Alloc(h, <<SystemMsg>> \o Elems(h, messages))

\* GetObject storing the messages it prepared in the Config it was handed
OpenAIGetObjectRequest_WritesConfig(h, config) ==
    IF HasSystemMsg(h, config.Messages)
    THEN OpenAIGetTextRequest(h, config)
    ELSE LET a == PrependSystemMsg(h, config.Messages)
         IN OpenAIGetTextRequest(a.heap, [config EXCEPT !.Messages = a.slice])

\* openai GetObject up to the request: GetText on a Config of its own
OpenAIGetObjectRequest(h, config) ==
    IF HasSystemMsg(h, config.Messages)
    THEN OpenAIGetTextRequest(h, config)
    ELSE LET a == PrependSystemMsg(h, config.Messages)
         IN [OpenAIGetTextRequest(a.heap, [config EXCEPT !.Messages = a.slice])
                 EXCEPT !.config = config]

\* anthropic GetText up to the request
AnthropicGetTextRequest(h, config) ==
    Sending(h, config, MessagesValue(h, config.Messages), config.Model,
            AnthropicConvertMessages(Elems(h, config.Messages)).messages,
            SystemPieces(AnthropicConvertMessages(Elems(h, config.Messages)).system),
            config.MaxTokens, config.Temperature)

\* the system parameter of anthropic GetObject
ObjectSystem(existingSystemMsg) ==
    IF existingSystemMsg # ""
    THEN <<existingSystemMsg, "\n\n", JSONInstruction>>
    ELSE <<JSONInstruction>>

\* anthropic GetObject up to the request
AnthropicGetObjectRequest(h, config) ==
    Sending(h, config, MessagesValue(h, config.Messages), config.Model,
            AnthropicConvertMessages(Elems(h, config.Messages)).messages,
            ObjectSystem(AnthropicConvertMessages(Elems(h, config.Messages)).system),
            config.MaxTokens, config.Temperature)

\* capability cap of the adapter of a kind, up to the request
AdapterRequest(kind, cap, h, config) ==
    CASE kind = "openai" /\ cap = "GetText" -> OpenAIGetTextRequest(h, config)
      [] kind = "openai" /\ cap = "GetObject" -> OpenAIGetObjectRequest(h, config)
      [] kind = "anthropic" /\ cap = "GetText" -> AnthropicGetTextRequest(h, config)
      [] kind = "anthropic" /\ cap = "GetObject" -> AnthropicGetObjectRequest(h, config)

(* Inputs of the request *)

\* the messages of a conversation
Said ==
    {SystemMessage("be brief"), SystemMessage("be kind"), UserMessage("hi"),
     AssistantMessage("hello"), ToolResultMessage("call_123", "sunny")}

Conversations == UNION {[1..n -> Said] : n \in 0..MaxMsgs}

\* the options of a call whose network request is followed
FlightOptions ==
    {<<Opt("Provider", id), Opt("Model", model)>> \o tools :
         id \in {ProviderOpenAI, ProviderAnthropic}, model \in {"", "test-model"},
         tools \in {<<>>, <<Opt("Tools", GetWeather)>>}}

\* the replies of the server to such a request: a text, a tool invocation, a failure
FlightReplies ==
    {[status |-> StatusOK, body |-> Body([Error |-> NoAPIError, Choices |-> <<Choice(Prose, <<>>)>>])],
     [status |-> StatusOK,
      body |-> Body([Error |-> NoAPIError,
                     Choices |-> <<Choice(<<>>, <<UpstreamCall("call_1", "get_weather")>>)>>])],
     [status |-> 500, body |-> BadGateway]}

-----------------------------------------------------------------------------
(* State *)

NoMerge == [done |-> FALSE, opts |-> <<>>, eff |-> <<>>]

\* a test in package ai calling c.mergeConfig(options...) and keeping the
\* result by value; the call's own arrays are garbage once it is dropped
MergeCall(ovs) ==
    /\ ~merged.done
    /\ LET made == MakeOptions(heap, ovs)
           m == mergeConfig(made.heap, defaults, made.opts)
       IN /\ merged' = [done |-> TRUE, opts |-> ovs, eff |-> ConfigValue(m.heap, m.config)]
          /\ defaults' = m.defaults
          /\ heap' = SubSeq(m.heap, 1, Len(heap))
    /\ UNCHANGED <<providers, ctorOpts, registered, reg, last, conv, extracted, adapter,
                   wire, flight, running>>

DropMerge ==
    /\ merged.done
    /\ merged' = NoMerge
    /\ UNCHANGED <<providers, defaults, heap, ctorOpts, registered, reg, last, conv, extracted, adapter,
                   wire, flight, running>>

NoCall ==
    [ep |-> "none", eff |-> <<>>, ret |-> [val |-> "", err |-> Nil], invoked |-> <<>>,
     requests |-> 0]

NoReg == [done |-> FALSE, provider |-> "", impl |-> "", before |-> <<>>]

\* the caller holds no outcome
Idle == last.ep = "none" /\ ~reg.done

Client == [providers |-> providers, defaults |-> defaults, heap |-> heap]

\* the caller takes the outcome of a dispatch call; the arrays the call
\* allocated are garbage once the outcome is dropped
Returned(ep, out) ==
    /\ last' = [ep |-> ep, eff |-> out.eff, ret |-> out.ret, invoked |-> out.invoked,
                requests |-> out.requests]
    /\ defaults' = out.defaults
    /\ heap' = SubSeq(out.heap, 1, Len(heap))
    /\ UNCHANGED <<providers, ctorOpts, registered, reg, merged, conv, extracted, adapter,
                   wire, flight, running>>

CallGetText(ovs, beh) ==
    /\ Idle
    /\ LET made == MakeOptions(heap, ovs)
       IN Returned("GetText", GetText([Client EXCEPT !.heap = made.heap], made.opts, beh))

CallGetObject(ovs, beh) ==
    /\ Idle
    /\ LET made == MakeOptions(heap, ovs)
       IN Returned("GetObject", GetObject([Client EXCEPT !.heap = made.heap], made.opts, beh))

CallGetToolCalls(ovs, beh) ==
    /\ Idle
    /\ LET made == MakeOptions(heap, ovs)
       IN Returned("GetToolCalls",
                   GetToolCalls([Client EXCEPT !.heap = made.heap], made.opts, beh))

\* the caller drops the outcome of the call
DropCall ==
    /\ ~Idle
    /\ last' = NoCall
    /\ reg' = NoReg
    /\ UNCHANGED <<providers, defaults, heap, ctorOpts, registered, merged, conv, extracted, adapter,
                   wire, flight, running>>

\* c.RegisterProvider(provider, impl)
RegisterProvider(provider, impl) ==
    /\ Idle
    /\ providers' = RegisterProviderMap(providers, provider, impl)
    /\ registered' = [id \in DOMAIN registered \cup {provider} |->
                          IF id = provider THEN impl ELSE registered[id]]
    /\ reg' = [done |-> TRUE, provider |-> provider, impl |-> impl, before |-> providers]
    /\ UNCHANGED <<defaults, heap, ctorOpts, last, merged, conv, extracted, adapter,
                   wire, flight, running>>

NoExtract ==
    [done |-> FALSE, kind |-> "",
     parts |-> [lead |-> <<>>, open |-> <<>>, tag |-> <<>>, sep |-> <<>>, payload |-> <<>>,
                close |-> <<>>, trail |-> <<>>],
     raw |-> <<>>, candidate |-> <<>>, val |-> Untouched, err |-> Nil]

\* GetObject of an adapter has received the reply text of parts p and
\* returns; the text is not empty, or the adapter had failed before
DecodeReply ==
    /\ ~extracted.done
    /\ \E kind \in AdapterKinds, p \in ReplyParts :
         /\ ReplyText(p) # <<>>
         /\ LET out == Decode(kind, ReplyText(p))
            IN extracted' = [done |-> TRUE, kind |-> kind, parts |-> p, raw |-> ReplyText(p),
                             candidate |-> out.candidate, val |-> out.val, err |-> out.err]
    /\ UNCHANGED <<providers, defaults, heap, ctorOpts, registered, reg, last, merged,
                   conv, adapter,
                   wire, flight, running>>

DropExtract ==
    /\ extracted.done
    /\ extracted' = NoExtract
    /\ UNCHANGED <<providers, defaults, heap, ctorOpts, registered, reg, last, merged,
                   conv, adapter,
                   wire, flight, running>>

NoAdapterCall ==
    [done |-> FALSE, via |-> "", p |-> [kind |-> "", apiKey |-> ""], cap |-> "",
     ovs |-> <<>>, config |-> <<>>, reply |-> <<>>, own |-> [val |-> <<>>, err |-> Nil],
     ret |-> [val |-> <<>>, err |-> Nil], reached |-> FALSE, received |-> <<>>,
     requests |-> 0]

\* the caller takes the outcome of an adapter call; received is the Config
\* the capability was handed, if it was reached
Answered(via, ovs, p, cap, config, reply, own, out) ==
    adapter' = [done |-> TRUE, via |-> via, p |-> p, cap |-> cap, ovs |-> ovs,
                config |-> config, reply |-> reply,
                own |-> [val |-> own.val, err |-> own.err],
                ret |-> out.ret, reached |-> out.invoked # <<>>,
                received |-> IF out.invoked = <<>> THEN <<>> ELSE out.invoked[1].config,
                requests |-> out.requests]

\* what a direct call of the adapter with config hands to its caller
Direct(config, beh) ==
    [ret |-> [val |-> beh.val, err |-> beh.err], invoked |-> <<[config |-> config]>>,
     requests |-> beh.requests]

\* a provider test, which has no client, calls capability cap of adapter p
\* with config while the server answers reply
ProviderCall ==
    /\ Idle /\ ~adapter.done
    /\ DOMAIN providers = {}
    /\ \E p \in Adapters, config \in DirectConfigs, reply \in Replies :
         \E cap \in CapsOf(p.kind) :
           Answered("direct", <<>>, p, cap, config, reply,
                    AdapterBehaviour(p, cap, config, reply),
                    Direct(config, AdapterBehaviour(p, cap, config, reply)))
    /\ UNCHANGED <<providers, defaults, heap, ctorOpts, registered, reg, last, merged,
                   conv, extracted,
                   wire, flight, running>>

\* the entry point of the client for capability cap
Dispatch(cap, c, options, beh) ==
    CASE cap = "GetText" -> GetText(c, options, beh)
      [] cap = "GetObject" -> GetObject(c, options, beh)
      [] cap = "GetToolCalls" -> GetToolCalls(c, options, beh)

\* the call returns out to the caller; its arrays are garbage afterwards
Dispatched(cap, ovs, eff, reply, beh, out) ==
    /\ Answered("client", ovs, providers[eff.Provider], cap, eff, reply, beh, out)
    /\ defaults' = out.defaults
    /\ heap' = SubSeq(out.heap, 1, Len(heap))

\* the adapter registered for the id of eff behaves as its code says
Resolved(cap, ovs, made, eff, reply, beh) ==
    Dispatched(cap, ovs, eff, reply, beh,
               Dispatch(cap, [Client EXCEPT !.heap = made.heap], made.opts, beh))

\* the effective configuration of a call with the options made
Effective(m) == ConfigValue(m.heap, m.config)

\* the call with the options made reaches an adapter that has capability cap
Served(cap, ovs, made, eff, reply) ==
    /\ eff.Provider \in DOMAIN providers
    /\ cap \in CapsOf(providers[eff.Provider].kind)
    /\ Resolved(cap, ovs, made, eff, reply,
                AdapterBehaviour(providers[eff.Provider], cap, eff, reply))

\* a caller calls the entry point for cap with options ovs; the id of the
\* effective configuration has an adapter registered, and the server answers
\* reply if a request arrives
ClientCall ==
    /\ Idle /\ ~adapter.done
    /\ DOMAIN providers # {}
    /\ \E cap \in Capabilities, ovs \in ClientCallOptions, reply \in Replies :
         LET made == MakeOptions(heap, ovs)
         IN Served(cap, ovs, made, Effective(mergeConfig(made.heap, defaults, made.opts)),
                   reply)
    /\ UNCHANGED <<providers, ctorOpts, registered, reg, last, merged, conv, extracted,
                   wire, flight, running>>

DropAdapterCall ==
    /\ adapter.done
    /\ adapter' = NoAdapterCall
    /\ UNCHANGED <<providers, defaults, heap, ctorOpts, registered, reg, last, merged,
                   conv, extracted,
                   wire, flight, running>>

\* client.RegisterProvider(ai.ProviderOpenAI, openai.New(...)), and the like
RegisterAdapter(p) == ~adapter.done /\ RegisterProvider(ProviderId(p.kind), p)

\* the arguments callers give the constructors
Texts == {"", "hi"}

ToolCallIDs == {"", "call_123"}

\* history = append(history, ai.SystemMessage(content))
SaySystem ==
    /\ Len(conv) < MaxConv
    /\ \E content \in Texts : conv' = Append(conv, SystemMessage(content))
    /\ UNCHANGED <<providers, defaults, heap, ctorOpts, registered, reg, last, merged,
                   extracted, adapter,
                   wire, flight, running>>

SayUser ==
    /\ Len(conv) < MaxConv
    /\ \E content \in Texts : conv' = Append(conv, UserMessage(content))
    /\ UNCHANGED <<providers, defaults, heap, ctorOpts, registered, reg, last, merged,
                   extracted, adapter,
                   wire, flight, running>>

SayAssistant ==
    /\ Len(conv) < MaxConv
    /\ \E content \in Texts : conv' = Append(conv, AssistantMessage(content))
    /\ UNCHANGED <<providers, defaults, heap, ctorOpts, registered, reg, last, merged,
                   extracted, adapter,
                   wire, flight, running>>

SayToolResult ==
    /\ Len(conv) < MaxConv
    /\ \E toolCallID \in ToolCallIDs, content \in Texts : conv' = Append(conv, ToolResultMessage(toolCallID, content))
    /\ UNCHANGED <<providers, defaults, heap, ctorOpts, registered, reg, last, merged,
                   extracted, adapter,
                   wire, flight, running>>

NoRequest ==
    [done |-> FALSE, kind |-> "", cap |-> "", before |-> <<>>, after |-> <<>>,
     sameFields |-> TRUE, handed |-> <<>>, request |-> <<>>]

\* the caller finds the Config as the capability left it, and the server the request
Built(kind, cap, h, config, out) ==
    wire' = [done |-> TRUE, kind |-> kind, cap |-> cap,
             before |-> ConfigValue(h, config), after |-> ConfigValue(out.heap, out.config),
             sameFields |-> out.config = config, handed |-> out.handed,
             request |-> out.request]

\* the Config of a provider test for the conversation stored as messages
TestConfig(kind, messages) ==
    [Provider |-> ProviderId(kind), Model |-> "test-model", Messages |-> messages,
     MaxTokens |-> 100, Temperature |-> 5, Tools |-> NilSlice]

\* the capability is handed the Config stored in memory h
Handed(kind, cap, h, config) == Built(kind, cap, h, config, AdapterRequest(kind, cap, h, config))

\* the conversation stored as the caller's Message structs
Stored(kind, cap, st) ==
    Handed(kind, cap, Variadic(st.heap, st.elems).heap,
           TestConfig(kind, Variadic(st.heap, st.elems).slice))

\* GetText or GetObject of an adapter is called with a conversation and
\* sends its request; the arrays of the call are garbage afterwards
SendRequest ==
    /\ ~wire.done
    /\ \E kind \in AdapterKinds, cap \in {"GetText", "GetObject"}, msgs \in Conversations :
         Stored(kind, cap, StoreMessages(heap, msgs))
    /\ UNCHANGED <<providers, defaults, heap, ctorOpts, registered, reg, last, merged,
                   conv, extracted, adapter, flight, running>>

DropRequest ==
    /\ wire.done
    /\ wire' = NoRequest
    /\ UNCHANGED <<providers, defaults, heap, ctorOpts, registered, reg, last, merged,
                   conv, extracted, adapter, flight, running>>

-----------------------------------------------------------------------------
(* Concurrent dispatch: two callers, each on a goroutine of its own, call   *)
(* the entry points of one client.  A call is run in steps: the merge, the  *)
(* checks up to the call of the provider, what the provider writes through  *)
(* the *Config it was handed, and its return.  The memory is the one heap.  *)

Callers == {1, 2}

NoConfig ==
    [Provider |-> "", Model |-> "", Messages |-> NilSlice, MaxTokens |-> 0, Temperature |-> 0,
     Tools |-> NilSlice]

\* the caller is in no call
NoRun ==
    [pc |-> "idle", ep |-> "", ovs |-> <<>>, config |-> NoConfig,
     received |-> ConfigValue(<<>>, NoConfig), err |-> Nil]

NoCalls == [caller \in Callers |-> NoRun]

\* the options of the concurrent calls
ConcurrentOptions ==
    {<<Opt("Model", "test-model")>>,
     <<Opt("Provider", ProviderOpenAI), Opt("Model", "test-model")>>,
     <<Opt("Provider", ProviderOpenAI), Opt("Model", "test-model"),
       Opt("Messages", <<AssistantCalling, UserMessage("own")>>)>>,
     <<Opt("Provider", ProviderOpenAI), Opt("Model", "test-model"),
       Opt("Tools", <<FunctionDefinition("get_weather")>>)>>}

\* what an implementation writes through the *Config it was handed
Writes == {"setMessage", "editToolCall"}

\* no call has begun
Quiet == \A caller \in Callers : running[caller].pc = "idle"

\* the error of the first check of entry point cap that config fails, or nil
Refusal(cap, config, provs) ==
    IF config.Model = "" THEN ErrModelNotSpecified
    ELSE IF config.Provider \notin DOMAIN provs
         THEN Errorf(ErrProviderNotSupported, config.Provider)
         ELSE IF cap = "GetToolCalls" /\ config.Tools.len = 0
              THEN ErrNoToolsSpecified
              ELSE Nil

\* config := c.mergeConfig(options...)
Merging(run, cap, ovs, m) ==
    [run EXCEPT !.pc = "merged", !.ep = cap, !.ovs = ovs, !.config = m.config]

\* the checks of the entry point, then provider.<cap>(ctx, config): the
\* provider is handed the Config as memory h shows it
Entering(run, h, provs) ==
    IF Refusal(run.ep, run.config, provs) # Nil
    THEN [run EXCEPT !.pc = "returned", !.err = Refusal(run.ep, run.config, provs)]
    ELSE [run EXCEPT !.pc = "invoked", !.received = ConfigValue(h, run.config)]

Merged(caller, cap, ovs, m) ==
    /\ running' = [running EXCEPT ![caller] = Merging(running[caller], cap, ovs, m)]
    /\ heap' = m.heap
    /\ defaults' = m.defaults

\* the registry is set up before the calls begin
RegisterFirst == Quiet /\ \E impl \in Impls : RegisterProvider(ProviderOpenAI, impl)

\* a caller calls an entry point: its options are evaluated and merged
BeginCall ==
    /\ Idle
    /\ \E caller \in Callers, cap \in Capabilities, ovs \in ConcurrentOptions :
         /\ running[caller].pc = "idle"
         /\ caller = 2 => running[1].pc # "idle"
         /\ Merged(caller, cap, ovs,
                   mergeConfig(MakeOptions(heap, ovs).heap, defaults, MakeOptions(heap, ovs).opts))
    /\ UNCHANGED <<providers, ctorOpts, registered, reg, last, merged, conv, extracted,
                   adapter, wire, flight>>

\* the call goes on to its checks and into the provider
EnterProvider ==
    /\ \E caller \in Callers :
         /\ running[caller].pc = "merged"
         /\ running' = [running EXCEPT ![caller] = Entering(running[caller], heap, providers)]
    /\ UNCHANGED <<providers, defaults, heap, ctorOpts, registered, reg, last, merged, conv,
                   extracted, adapter, wire, flight>>

\* the provider of a call writes through the *Config it was handed
ProviderWrites ==
    /\ \E caller \in Callers, mut \in Writes :
         /\ running[caller].pc = "invoked"
         /\ Mutate(heap, running[caller].config, mut) # heap
         /\ heap' = Mutate(heap, running[caller].config, mut)
         /\ running' = [running EXCEPT ![caller].pc = "wrote"]
    /\ UNCHANGED <<providers, defaults, ctorOpts, registered, reg, last, merged, conv,
                   extracted, adapter, wire, flight>>

\* the provider returns, and the entry point with it
ProviderReturns ==
    /\ \E caller \in Callers :
         /\ running[caller].pc \in {"invoked", "wrote"}
         /\ running' = [running EXCEPT ![caller].pc = "returned"]
    /\ UNCHANGED <<providers, defaults, heap, ctorOpts, registered, reg, last, merged, conv,
                   extracted, adapter, wire, flight>>


-----------------------------------------------------------------------------
(* The network request of a capability call, step by step.  The call blocks *)
(* in p.client.Do and then in io.ReadAll; the caller's context may be       *)
(* cancelled meanwhile.  The transport is net/http: once the context of the *)
(* request is done, Do returns a *url.Error around ctx.Err(), and a read of *)
(* the body returns ctx.Err().                                              *)

ContextCanceled == NewError("context.Canceled", "context canceled")

\* the dial failed
ConnectionRefused == NewError("syscall.ECONNREFUSED", "connection refused")

\* the *url.Error of client.Do around the error of the round trip
URLError(err) == [id |-> "url.Error", text |-> <<"Post: ">> \o err.text, wraps |-> err.id]

\* the send failure formatted with %v: the same text, nothing wrapped
SendFailure_Unwrapped(err) ==
    [id |-> "fmt.errorString", text |-> <<"failed to send request: ">> \o err.text,
     wraps |-> "none"]

\* fmt.Errorf("failed to send request: %w", err)
SendFailure(err) ==
    [id |-> "fmt.wrapError", text |-> <<"failed to send request: ">> \o err.text,
     wraps |-> err.id]

\* fmt.Errorf("failed to read response: %w", err)
ReadFailure(err) ==
    [id |-> "fmt.wrapError", text |-> <<"failed to read response: ">> \o err.text,
     wraps |-> err.id]

\* what capability cap of an adapter returns beside the error when it fails
AdapterZero(cap) == IF cap = "GetObject" THEN Untouched ELSE <<>>

\* what client.Do returns as error: the context's once it is cancelled,
\* else none or that of the network
DoErrors(cancelled) ==
    IF cancelled THEN {URLError(ContextCanceled)} ELSE {Nil, URLError(ConnectionRefused)}

\* what io.ReadAll returns as error
ReadErrors(cancelled) == IF cancelled THEN {ContextCanceled} ELSE {Nil}

\* no call is under way; ret is the error a call returned and whether the
\* value beside it is the zero value
NoFlight ==
    [phase |-> "none", ep |-> "", ovs |-> <<>>, model |-> "", provider |-> "",
     tools |-> 0, reply |-> [status |-> 0, body |-> BadGateway],
     cancelled |-> FALSE, cause |-> Nil, invoked |-> <<>>, sent |-> 0,
     ret |-> [zero |-> TRUE, err |-> Nil]]

\* what the caller of entry point cap is handed when it returns out
Kept(cap, out) ==
    [zero |-> IF out.invoked = <<>>
              THEN out.ret.val = ZeroValue(cap)
              ELSE out.ret.val = AdapterZero(cap),
     err |-> out.ret.err]

\* the entry point for cap run with options ovs and the provider behaving as beh
Redispatch(cap, ovs, beh) ==
    Dispatch(cap, [Client EXCEPT !.heap = MakeOptions(heap, ovs).heap],
             MakeOptions(heap, ovs).opts, beh)

\* the effective configuration of a call with options ovs
Sought(cap, ovs) ==
    Effective(mergeConfig(MakeOptions(heap, ovs).heap, defaults, MakeOptions(heap, ovs).opts))

\* what the capability does when nothing fails in the network
Planned(cap, eff, reply) ==
    IF eff.Provider \in DOMAIN providers
    THEN AdapterBehaviour(providers[eff.Provider], cap, eff, reply)
    ELSE Outcome(AdapterZero(cap), Nil, 0)

\* what the entry point of call f returns when the capability it invoked
\* returns val and err: return provider.GetText(ctx, config), and the same
\* for the other two
Through(f, val, err) == [ret |-> [val |-> val, err |-> err], invoked |-> f.invoked]

\* call f when the capability goes on to its end as beh
Finished(f, beh) == Through(f, beh.val, beh.err)

\* call f after Do has returned err, retrying once when it failed
AfterDo_Retries(f, err, out) ==
    IF err # Nil /\ f.sent < 2
    THEN [f EXCEPT !.sent = f.sent + 1]
    ELSE IF err # Nil
         THEN [f EXCEPT !.phase = "returned", !.cause = err, !.ret = Kept(f.ep, out)]
         ELSE [f EXCEPT !.phase = "reading"]

\* call f after resp, err := p.client.Do(req): with an error the
\* capability returns, and the entry point with it (out); else it reads
AfterDo(f, err, out) ==
    IF err # Nil
    THEN [f EXCEPT !.phase = "returned", !.cause = err, !.ret = Kept(f.ep, out)]
    ELSE [f EXCEPT !.phase = "reading"]

\* call f after body, err := io.ReadAll(resp.Body): the capability goes on
\* to its end and returns, and the entry point with it (out)
AfterRead(f, err, out) ==
    [f EXCEPT !.phase = "returned", !.cause = err, !.ret = Kept(f.ep, out)]

\* the call as the entry point and the capability leave it when the
\* request is handed to the transport, or when they return before that
Begun(cap, ovs, reply, eff, beh, out) ==
    flight' = [NoFlight EXCEPT
                  !.phase = IF out.invoked = <<>> \/ beh.requests = 0
                            THEN "returned" ELSE "doing",
                  !.ep = cap, !.ovs = ovs, !.model = eff.Model, !.provider = eff.Provider,
                  !.tools = Len(eff.Tools), !.reply = reply,
                  !.invoked = [i \in 1..Len(out.invoked) |->
                                  [impl |-> out.invoked[i].impl, cap |-> out.invoked[i].cap]],
                  !.sent = IF out.invoked = <<>> THEN 0 ELSE beh.requests,
                  !.ret = IF out.invoked = <<>> \/ beh.requests = 0
                          THEN Kept(cap, out) ELSE NoFlight.ret]

Entered(cap, ovs, reply, eff, beh) ==
    Begun(cap, ovs, reply, eff, beh, Redispatch(cap, ovs, beh))

\* the adapter the call resolves to, if any, has the capability
Started(cap, ovs, reply, eff) ==
    /\ eff.Provider \in DOMAIN providers => cap \in CapsOf(providers[eff.Provider].kind)
    /\ Entered(cap, ovs, reply, eff, Planned(cap, eff, reply))

\* a caller calls the entry point for cap with options ovs and a context
\* that is not done; the call runs up to its network request
StartCall ==
    /\ Idle /\ flight.phase = "none"
    /\ \E cap \in Capabilities, ovs \in FlightOptions, reply \in FlightReplies :
         Started(cap, ovs, reply, Sought(cap, ovs))
    /\ UNCHANGED <<providers, defaults, heap, ctorOpts, registered, reg, last, merged,
                   conv, extracted, adapter, wire, running>>

\* the caller cancels the context while the request is under way
Cancel ==
    /\ flight.phase \in {"doing", "reading"}
    /\ ~flight.cancelled
    /\ flight' = [flight EXCEPT !.cancelled = TRUE]
    /\ UNCHANGED <<providers, defaults, heap, ctorOpts, registered, reg, last, merged,
                   conv, extracted, adapter, wire, running>>

\* p.client.Do returns
DoReturns ==
    /\ flight.phase = "doing"
    /\ \E err \in DoErrors(flight.cancelled) :
         flight' = AfterDo(flight, err,
                           Through(flight, AdapterZero(flight.ep), SendFailure(err)))
    /\ UNCHANGED <<providers, defaults, heap, ctorOpts, registered, reg, last, merged,
                   conv, extracted, adapter, wire, running>>

\* io.ReadAll returns
ReadReturns ==
    /\ flight.phase = "reading"
    /\ \E err \in ReadErrors(flight.cancelled) :
         flight' = AfterRead(flight, err,
                             IF err # Nil
                             THEN Through(flight, AdapterZero(flight.ep), ReadFailure(err))
                             ELSE Finished(flight, Planned(flight.ep,
                                                           Sought(flight.ep, flight.ovs),
                                                           flight.reply)))
    /\ UNCHANGED <<providers, defaults, heap, ctorOpts, registered, reg, last, merged,
                   conv, extracted, adapter, wire, running>>

\* the caller drops the outcome of the call
DropFlight ==
    /\ flight.phase = "returned"
    /\ flight' = NoFlight
    /\ UNCHANGED <<providers, defaults, heap, ctorOpts, registered, reg, last, merged,
                   conv, extracted, adapter, wire, running>>

\* the registry is set up while no call runs
RegisterBefore(p) == flight.phase = "none" /\ RegisterProvider(ProviderId(p.kind), p)

\* the transport gives up a request whose context is done
Aborted == flight.cancelled /\ (DoReturns \/ ReadReturns)

EmptyRegistry == [id \in {} |-> ""]

Init ==
    \E ovs \in Constructions :
        LET c == NewClient(ovs)
        IN /\ defaults = c.defaults
           /\ heap = c.heap
           /\ ctorOpts = ovs
           /\ providers = EmptyRegistry
           /\ registered = EmptyRegistry
           /\ reg = NoReg
           /\ last = NoCall
           /\ merged = NoMerge
           /\ conv = <<>>
           /\ extracted = NoExtract
           /\ adapter = NoAdapterCall
           /\ wire = NoRequest
           /\ flight = NoFlight
           /\ running = NoCalls

Next ==
    \/ \E provider \in ProviderIds, impl \in Impls : RegisterProvider(provider, impl)
    \/ \E ovs \in CallOptionSeqs, beh \in Behaviours("GetText") : CallGetText(ovs, beh)
    \/ \E ovs \in CallOptionSeqs, beh \in Behaviours("GetObject") : CallGetObject(ovs, beh)
    \/ \E ovs \in CallOptionSeqs, beh \in Behaviours("GetToolCalls") : CallGetToolCalls(ovs, beh)
    \/ DropCall

Spec == Init /\ [][Next]_vars

NextMerge == (\E ovs \in OptionSeqs : MergeCall(ovs)) \/ DropMerge

SpecMerge == Init /\ [][NextMerge]_vars

NextExtract ==
    DecodeReply \/ DropExtract

SpecExtract == Init /\ [][NextExtract]_vars

NextAdapter ==
    \/ \E p \in Adapters : RegisterAdapter(p)
    \/ DropCall
    \/ ProviderCall
    \/ ClientCall
    \/ DropAdapterCall

SpecAdapter == Init /\ [][NextAdapter]_vars

NextRequest == SendRequest \/ DropRequest

SpecRequest == Init /\ [][NextRequest]_vars

NextFlight ==
    \/ \E p \in Adapters : RegisterBefore(p)
    \/ DropCall
    \/ StartCall
    \/ Cancel
    \/ DoReturns
    \/ ReadReturns
    \/ DropFlight

\* a request whose context is done does not stay blocked
SpecFlight == Init /\ [][NextFlight]_vars /\ WF_vars(Aborted)

NextCalls ==
    \/ RegisterFirst
    \/ DropCall
    \/ BeginCall
    \/ EnterProvider
    \/ ProviderWrites
    \/ ProviderReturns

SpecCalls == Init /\ [][NextCalls]_vars

NextMessages == SaySystem \/ SayUser \/ SayAssistant \/ SayToolResult

SpecMessages == Init /\ [][NextMessages]_vars

-----------------------------------------------------------------------------
(* Dispatch: properties of the entry points and the registry, under Spec *)

Called == last.ep \in Capabilities

\* the call passed the checks of the model and of the provider id
Valid == Called /\ last.eff.Model # "" /\ last.eff.Provider \in DOMAIN providers

NothingInvoked == last.invoked = <<>> /\ last.requests = 0

\* C1: a dispatch call whose effective model is empty fails with
\* ErrModelNotSpecified, at each of the three entry points, and no
\* capability of any provider is invoked during it.
C1_EmptyModelFails ==
    (Called /\ last.eff.Model = "") =>
        /\ last.ret.err = ErrModelNotSpecified
        /\ last.ret.val = ZeroValue(last.ep)
        /\ NothingInvoked

\* the base has a model, the override clears it, the provider is registered
C1_Witness ==
    /\ last.ep = "GetObject"
    /\ ConfigValue(heap, defaults).Model = "test-model"
    /\ last.eff.Model = ""
    /\ last.eff.Provider \in DOMAIN providers
    /\ last.ret.err = ErrModelNotSpecified

\* the lookup error of provider id: it matches ErrProviderNotSupported and
\* its text ends with the id
IsNotSupported(err, id) ==
    /\ ErrorsIs(err, ErrProviderNotSupported)
    /\ err.text = <<"provider not supported", ": ", id>>

\* C2 as stated: a dispatch call whose provider id is not a key of the
\* registry fails with an error that matches ErrProviderNotSupported and
\* carries the id, and no provider is invoked.
C2_UnregisteredFails ==
    (Called /\ last.eff.Provider \notin DOMAIN providers) =>
        IsNotSupported(last.ret.err, last.eff.Provider) /\ NothingInvoked

\* C2, amended: a dispatch call whose effective model is not empty and whose
\* provider id is not a key of the registry fails with an error that matches
\* ErrProviderNotSupported and carries the id, and no provider is invoked.
C2_UnregisteredFailsGivenModel ==
    (Called /\ last.eff.Model # "" /\ last.eff.Provider \notin DOMAIN providers) =>
        IsNotSupported(last.ret.err, last.eff.Provider) /\ NothingInvoked

\* the empty id, not registered while another id is, at GetToolCalls
C2_Witness ==
    /\ last.ep = "GetToolCalls"
    /\ last.eff.Model # ""
    /\ last.eff.Provider = ""
    /\ DOMAIN providers = {ProviderOpenAI}
    /\ last.ret.err.text = <<"provider not supported", ": ", "">>

\* C3: GetToolCalls with a non-empty model, a registered provider and no
\* effective tools fails with the error "no tools specified", and nothing is
\* invoked and no request is sent.
C3_NoToolsFails ==
    (Valid /\ last.ep = "GetToolCalls" /\ Len(last.eff.Tools) = 0) =>
        /\ last.ret.err = ErrNoToolsSpecified
        /\ last.ret.err.text = <<"no tools specified">>
        /\ last.ret.val = <<>>
        /\ NothingInvoked

\* the base has tools and the call overrides none: the effective set is empty
C3_Witness ==
    /\ Valid
    /\ last.ep = "GetToolCalls"
    /\ Len(last.eff.Tools) = 0
    /\ Len(ConfigValue(heap, defaults).Tools) > 0
    /\ last.ret.err = ErrNoToolsSpecified

\* the call reached the provider's capability
Reaches == Valid /\ (last.ep = "GetToolCalls" => Len(last.eff.Tools) > 0)

\* C4: a dispatch call that passes the checks invokes the capability and
\* returns the value and the error value the capability returned, unchanged.
C4_ResultPassedThrough ==
    Reaches =>
        /\ Len(last.invoked) = 1
        /\ last.invoked[1].cap = last.ep
        /\ last.ret.val = last.invoked[1].ret.val
        /\ last.ret.err = last.invoked[1].ret.err

\* the provider failed with an error of its own and the caller got it
C4_Witness ==
    /\ Reaches
    /\ last.ep = "GetText"
    /\ last.invoked[1].ret.err = ErrUpstream
    /\ last.ret.err = ErrUpstream

\* C9: whatever merges ran and whatever was written through an effective
\* configuration, every field of the base configuration has the value it
\* had after construction.
C9_BaseUnperturbed == ConfigValue(heap, defaults) = LET c == NewClient(ctorOpts)
                                                    IN ConfigValue(c.heap, c.defaults)

\* C10: the registry holds for each id the implementation of its latest
\* registration, a call that reaches a provider reaches that one, and an id
\* once registered stays registered.
C10_LastRegistrationWins ==
    /\ [](/\ providers = registered
          /\ reg.done =>
                 /\ providers[reg.provider] = reg.impl
                 /\ \A id \in DOMAIN reg.before : id \in DOMAIN providers
          /\ Reaches => last.invoked[1].impl = registered[last.eff.Provider])
    /\ [][\A id \in DOMAIN providers : id \in DOMAIN providers']_vars

\* an id registered as implA has just been registered again as implB
C10_Witness ==
    /\ reg.done
    /\ reg.provider \in DOMAIN reg.before
    /\ reg.before[reg.provider] = "implA"
    /\ reg.impl = "implB"
    /\ providers[reg.provider] = "implB"

\* the checks of the entry point in their order, on the effective
\* configuration: the first that fails, or "invoke" when all pass
FirstFailing ==
    IF last.eff.Model = "" THEN "model"
    ELSE IF last.eff.Provider \notin DOMAIN providers THEN "provider"
    ELSE IF last.ep = "GetToolCalls" /\ Len(last.eff.Tools) = 0 THEN "tools"
    ELSE "invoke"

\* C26: within one dispatch call the checks run in the order merge, model
\* check, provider lookup, tool-set check, invocation, and the first check
\* that fails decides the error: an empty model gives ErrModelNotSpecified
\* also when the provider is not registered, and GetToolCalls with a model,
\* an unregistered provider and no tools gives ProviderNotSupported, not
\* the error of the missing tools; the provider is invoked only after all.
C26_ChecksInOrder ==
    Called =>
        /\ FirstFailing = "model" => last.ret.err = ErrModelNotSpecified
        /\ FirstFailing = "provider" =>
               /\ IsNotSupported(last.ret.err, last.eff.Provider)
               /\ last.ret.err # ErrNoToolsSpecified
        /\ FirstFailing = "tools" => last.ret.err = ErrNoToolsSpecified
        /\ FirstFailing # "invoke" <=> last.invoked = <<>>

\* GetToolCalls with a model, an id that is not registered and no tools
C26_Witness ==
    /\ last.ep = "GetToolCalls"
    /\ last.eff.Model # ""
    /\ last.eff.Provider \notin DOMAIN providers
    /\ Len(last.eff.Tools) = 0
    /\ ErrorsIs(last.ret.err, ErrProviderNotSupported)

\* a step in which a dispatch call runs from its start to its return
DispatchStep == last.ep = "none" /\ last'.ep \in Capabilities

\* C29: no dispatch entry point writes shared client state: a call of
\* GetText, GetObject or GetToolCalls, successful or failing and whatever
\* its overrides, leaves the registry and every field of the base
\* configuration as they were, and leaves all memory as it was unless the
\* provider it invoked wrote; the registry changes in a RegisterProvider
\* call only.
C29_DispatchOnlyReads ==
    /\ [][DispatchStep =>
              /\ providers' = providers
              /\ defaults' = defaults
              /\ (last'.invoked = <<>> \/ ~last'.invoked[1].wrote) => heap' = heap]_vars
    /\ [][providers' # providers => (~reg.done /\ reg'.done /\ last' = last)]_vars

\* a call has replaced the messages of a base that has some, and failed
\* in the provider
C29_Witness ==
    /\ Reaches
    /\ ~last.invoked[1].wrote
    /\ last.ret.err = ErrUpstream
    /\ Len(ConfigValue(heap, defaults).Messages) = 2
    /\ last.eff.Messages = <<UserMessage("hi")>>

-----------------------------------------------------------------------------
(* Option merge: properties of mergeConfig, under SpecMerge *)

\* the index of the last override of ovs that sets field f, 0 when none does
LastSet(ovs, f) ==
    LET S == {i \in 1..Len(ovs) : ovs[i].kind = f}
    IN IF S = {} THEN 0 ELSE CHOOSE i \in S : \A j \in S : j <= i

Range(seq) == {seq[i] : i \in 1..Len(seq)}

RemoveAt(seq, i) == SubSeq(seq, 1, i - 1) \o SubSeq(seq, i + 1, Len(seq))

\* the effective configuration, as a value, of a merge of option calls ovs
\* over the base d in memory h
EffectiveOf(h, d, ovs) ==
    LET made == MakeOptions(h, ovs)
        m == mergeConfig(made.heap, d, made.opts)
    IN ConfigValue(m.heap, m.config)

BaseValue == ConfigValue(heap, defaults)

\* the base configuration as NewClient left it
BuiltValue == LET c == NewClient(ctorOpts) IN ConfigValue(c.heap, c.defaults)

\* C5: every field that some override sets has, in the effective
\* configuration, the value of the last override of the sequence that sets
\* it, whatever the base and the earlier overrides hold.
C5_LastOverrideWins ==
    merged.done =>
        \A f \in Fields :
            LET i == LastSet(merged.opts, f)
            IN i > 0 => merged.eff[f] = merged.opts[i].arg

\* two overrides of the temperature, 0.2 then 0.9, merged to 0.9
C5_Witness ==
    /\ merged.done
    /\ merged.opts = <<Opt("Temperature", 2), Opt("Temperature", 9)>>
    /\ merged.eff.Temperature = 9
    /\ BaseValue.Temperature = 5

\* C6: every field, Messages and Tools included, that no override sets has
\* in the effective configuration the value the base configuration has.
C6_UnsetFieldsKeepBase ==
    merged.done =>
        \A f \in Fields :
            LastSet(merged.opts, f) = 0 => merged.eff[f] = BuiltValue[f]

\* C7: an override given twice in a row merges to what it merges to given
\* once, and a merge yields what the same overrides yield on the client as
\* constructed, whatever merges came before.
C7_MergeIdempotent ==
    merged.done =>
        /\ \A i \in 1..(Len(merged.opts) - 1) :
               merged.opts[i] = merged.opts[i + 1] =>
                   merged.eff = EffectiveOf(heap, defaults, RemoveAt(merged.opts, i))
        /\ LET c == NewClient(ctorOpts)
           IN merged.eff = EffectiveOf(c.heap, c.defaults, merged.opts)

\* the same non-empty Tools override twice over a base that has tools
C7_Witness ==
    /\ merged.done
    /\ Len(merged.opts) = 2
    /\ merged.opts[1] = merged.opts[2]
    /\ merged.opts[1].kind = "Tools"
    /\ Len(merged.opts[1].arg) = 2
    /\ Len(merged.eff.Tools) = 2
    /\ Len(BaseValue.Tools) > 0

\* the elements of field f held by the base and by the overrides before i
EarlierElements(f, i) ==
    Range(BuiltValue[f])
        \cup UNION {Range(merged.opts[j].arg) : j \in {k \in 1..(i - 1) : merged.opts[k].kind = f}}

\* C8: a Messages or Tools override replaces the whole sequence: the
\* effective sequence is exactly the override's arguments, and no element
\* of the base or of an earlier override is in it unless given again.
C8_SequencesReplaced ==
    merged.done =>
        \A f \in {"Messages", "Tools"} :
            LET i == LastSet(merged.opts, f)
            IN i > 0 =>
                /\ Len(merged.eff[f]) = Len(merged.opts[i].arg)
                /\ \A k \in 1..Len(merged.opts[i].arg) : merged.eff[f][k] = merged.opts[i].arg[k]
                /\ \A e \in EarlierElements(f, i) :
                       e \notin Range(merged.opts[i].arg) => e \notin Range(merged.eff[f])

\* a base with messages, then two different Messages overrides
C8_Witness ==
    /\ merged.done
    /\ Len(BuiltValue.Messages) = 2
    /\ merged.opts = <<Opt("Messages", <<AssistantCalling, UserMessage("hi")>>),
                       Opt("Messages", <<UserMessage("hi")>>)>>
    /\ merged.eff.Messages = <<UserMessage("hi")>>

-----------------------------------------------------------------------------
(* Reconciliation: properties of the clean-up and the decoding, under SpecExtract *)

Decoded == extracted.done

\* the payload is a JSON document without a fence marker
PlainDoc(p) == p.payload \in JSONDocs /\ ~Contains(p.payload, Fence)

\* the payload in an opener line, tagged json or not, and a closing fence
\* line; or the payload alone; whitespace around either
WrappedOrBare(p) ==
    /\ p.lead \in Pads /\ p.trail \in Pads
    /\ \/ p.open = Fence /\ p.tag \in {<<>>, <<"j", "s", "o", "n">>}
          /\ p.sep = NL /\ p.close = NL \o Fence
       \/ p.open = <<>> /\ p.close = <<>>

\* C11: for a JSON document J without a fence marker, the reply texts
\* "FjsonNJNF", "FNJNF" (F the fence marker, N a newline) and J alone, with any whitespace around,
\* give one candidate, J trimmed, and so decode to one value.
C11_WrappingsAgree ==
    (Decoded /\ PlainDoc(extracted.parts) /\ WrappedOrBare(extracted.parts)) =>
        /\ extracted.candidate = TrimSpace(extracted.parts.payload)
        /\ extracted.err = Nil
        /\ extracted.val = Unmarshal(TrimSpace(extracted.parts.payload)).val

C11_Witness ==
    /\ Decoded /\ PlainDoc(extracted.parts) /\ WrappedOrBare(extracted.parts)
    /\ extracted.parts.tag = <<"j", "s", "o", "n">>
    /\ extracted.parts.lead # <<>> /\ extracted.parts.trail # <<>>
    /\ extracted.candidate = DocMessage

\* the reply opens with a fence, a language tag and the end of the line
TaggedOpener(p) == p.open = Fence /\ p.tag # <<>> /\ p.sep = NL

\* C12: when the trimmed reply starts with a fenced opener, the whole opener
\* is stripped whatever its language tag, json or another: the candidate
\* never begins with the language tag of the opener.
C12_OpenerStripped ==
    (Decoded /\ TaggedOpener(extracted.parts)) =>
        ~HasPrefix(extracted.candidate, extracted.parts.tag)

\* C13: when the decoding of the candidate fails, GetObject returns a
\* DecodeFailure that wraps the parse error and whose text ends with the
\* candidate exactly as it was handed to the decoder.
C13_DecodeFailureCarriesCandidate ==
    (Decoded /\ extracted.candidate \notin JSONDocs) =>
        LET parse == SyntaxError(extracted.candidate)
        IN /\ extracted.err # Nil
           /\ ErrorsIs(extracted.err, parse)
           /\ extracted.err.text =
                  <<"failed to unmarshal JSON response: ">> \o parse.text
                      \o <<": ", Str(extracted.candidate)>>

C13_Witness ==
    /\ Decoded /\ extracted.err # Nil
    /\ extracted.candidate # extracted.raw
    /\ Contains(extracted.candidate, DocMessage)
    /\ extracted.err.text[4] = Str(extracted.candidate)

OtherKind(kind) == IF kind = "openai" THEN "anthropic" ELSE "openai"

\* C14: for every reply text, the OpenAI and the Anthropic adapter compute
\* the same candidate, and either both succeed with the same decoded value
\* or both fail with a DecodeFailure carrying the same candidate.
C14_AdaptersAgree ==
    Decoded =>
        LET other == Decode(OtherKind(extracted.kind), extracted.raw)
        IN /\ other.candidate = extracted.candidate
           /\ \/ extracted.err = Nil /\ other.err = Nil /\ other.val = extracted.val
              \/ /\ extracted.err # Nil /\ other.err = extracted.err
                 /\ extracted.err.text[Len(extracted.err.text)] = Str(extracted.candidate)

C14_Witness ==
    /\ Decoded /\ extracted.kind = "anthropic"
    /\ extracted.parts.tag = <<"j", "s", "o", "n">> /\ extracted.parts.payload = DocFenced
    /\ extracted.err = Nil /\ extracted.val = Unmarshal(DocFenced).val

\* the reply opens with a fence whose opener the clean-up removes whole
OpenerRemoved(p) == p.open = Fence /\ p.tag \in {<<>>, <<"j", "s", "o", "n">>}

\* what is left of the trimmed reply after the opener
Remainder(p) ==
    SubSeq(TrimSpace(ReplyText(p)), Len(p.open) + Len(p.tag) + 1, Len(TrimSpace(ReplyText(p))))

\* the places, 1-based, where a fence marker starts in a text
MarkersAt(text) == {i \in 1..(Len(text) - 2) : SubSeq(text, i, i + 2) = Fence}

\* C28: after the opener of a leading fenced block is removed, the
\* candidate is the text before the last fence marker that remains,
\* trimmed: with no marker left the whole remainder is kept, and with
\* several left everything before the last one is kept, inner markers and
\* prose between blocks included.
C28_CutAtLastMarker ==
    (Decoded /\ OpenerRemoved(extracted.parts)) =>
        LET rest == Remainder(extracted.parts)
            at == MarkersAt(rest)
        IN IF at = {}
           THEN extracted.candidate = TrimSpace(rest)
           ELSE \E i \in at :
                    /\ \A j \in at : j <= i
                    /\ extracted.candidate = TrimSpace(SubSeq(rest, 1, i - 1))
                    /\ \A j \in at \ {i} :
                           j + 2 < i => Contains(extracted.candidate, Fence)

\* a block, prose and one more marker: the candidate runs over the closing
\* fence of the block and the prose
C28_Witness ==
    /\ Decoded /\ OpenerRemoved(extracted.parts)
    /\ extracted.parts.payload = DocMessage
    /\ extracted.parts.close = NL \o Fence
    /\ extracted.parts.trail = NL \o Prose \o NL \o Fence
    /\ extracted.candidate = DocMessage \o NL \o Fence \o NL \o Prose
    /\ extracted.err # Nil

-----------------------------------------------------------------------------
(* Adapters: properties of the capabilities, under SpecAdapter *)

\* a capability of the adapter was called and has returned
AdapterReturned == adapter.done /\ adapter.reached

\* GetToolCalls was called with a key and with tools, so that it sent its request
ToolCallsAsked ==
    /\ AdapterReturned /\ adapter.cap = "GetToolCalls"
    /\ adapter.p.apiKey # "" /\ adapter.config.Tools # <<>>

\* the Response of the reply
Upstream == adapter.reply.body.resp

\* the reply has the success status and parses to a Response without error payload
Successful == adapter.reply.status = StatusOK /\ adapter.reply.body.json /\ ~Upstream.Error.set

\* C15: the normalised ToolCall sequence has the length and the order of the
\* upstream list of tool invocations: element i carries the id, the kind and
\* the tool name of upstream invocation i.
C15_ToolCallOrderPreserved ==
    (ToolCallsAsked /\ adapter.ret.err = Nil) =>
        LET up == Upstream.Choices[1].ToolCalls
            got == adapter.ret.val
        IN /\ Len(got) = Len(up)
           /\ \A i \in 1..Len(up) :
                  /\ got[i].ID = up[i].ID
                  /\ got[i].Type = up[i].Type
                  /\ got[i].Tool.Name = up[i].Function.Name

C15_Witness ==
    /\ ToolCallsAsked /\ adapter.ret.err = Nil /\ adapter.via = "client"
    /\ Len(adapter.ret.val) = 2
    /\ adapter.ret.val[1].ID = "call_2" /\ adapter.ret.val[2].ID = "call_1"

\* C16: when a successful upstream reply carries no tool invocations,
\* GetToolCalls returns the empty sequence and a nil error, also when the
\* reply has text content only.
C16_NoToolCallsIsEmpty ==
    (ToolCallsAsked /\ Successful /\ Upstream.Choices # <<>>
        /\ Upstream.Choices[1].ToolCalls = <<>>) =>
        adapter.ret.val = <<>> /\ adapter.ret.err = Nil

C16_Witness ==
    /\ ToolCallsAsked /\ Successful /\ Upstream.Choices # <<>>
    /\ Upstream.Choices[1].ToolCalls = <<>> /\ Upstream.Choices[1].Content = Prose
    /\ adapter.ret = [val |-> <<>>, err |-> Nil]

\* C18: an adapter constructed with an empty API key fails every call of a
\* capability with its ErrEmptyAPIKey before any HTTP request is built or
\* sent, and the dispatcher hands that same error value to the caller.
C18_EmptyKeyFailsUnsent ==
    (AdapterReturned /\ adapter.p.apiKey = "") =>
        /\ adapter.own.err = EmptyAPIKeyError(adapter.p.kind)
        /\ adapter.requests = 0
        /\ adapter.ret.err = adapter.own.err

C18_Witness ==
    /\ AdapterReturned /\ adapter.p.apiKey = "" /\ adapter.via = "client"
    /\ adapter.p.kind = "anthropic" /\ adapter.cap = "GetObject"
    /\ adapter.ret.err = EmptyAPIKeyError("anthropic")

\* the adapter sent its request and the server answered
Sent == AdapterReturned /\ adapter.requests = 1

\* the error is one the adapter makes of an upstream failure
IsUpstreamError(err) ==
    /\ err.id = "fmt.errorString"
    /\ err.text[1] \in {APIName(adapter.p.kind) \o " API error: ",
                        APIName(adapter.p.kind) \o " API returned status code "}

\* the message of the provider's error payload, or else the body
UpstreamMessage ==
    IF adapter.reply.body.json /\ Upstream.Error.set
    THEN Upstream.Error.Message
    ELSE adapter.reply.body.raw

\* C19: every upstream reply with a non-success HTTP status, or carrying a
\* provider-reported error payload, becomes an UpstreamError whose text
\* holds the upstream error message verbatim; it never yields a result and
\* is never another kind of error.
C19_UpstreamErrorsPreserved ==
    (Sent /\ (adapter.reply.status # StatusOK
                 \/ (adapter.reply.body.json /\ Upstream.Error.set))) =>
        /\ IsUpstreamError(adapter.ret.err)
        /\ adapter.ret.err.text[Len(adapter.ret.err.text)] = UpstreamMessage

\* C20: a reply with the success status whose expected content is missing or
\* empty (no choices or content blocks, or an empty first text) makes GetText
\* and GetObject fail with ErrInvalidResponse; neither returns the empty
\* string or an untouched target as a success.
C20_EmptyContentIsInvalid ==
    (Sent /\ adapter.cap \in {"GetText", "GetObject"}
        /\ adapter.reply.status = StatusOK /\ adapter.reply.body.json
        /\ (Upstream.Choices = <<>> \/ Upstream.Choices[1].Content = <<>>)) =>
        /\ adapter.ret.err = InvalidResponseError(adapter.p.kind)
        /\ adapter.ret.val = (IF adapter.cap = "GetText" THEN <<>> ELSE Untouched)

C20_Witness ==
    /\ Sent /\ adapter.cap = "GetObject" /\ adapter.reply.status = StatusOK
    /\ Len(Upstream.Choices) = 2 /\ Upstream.Choices[1].Content = <<>>
    /\ adapter.ret.err = InvalidResponseError("openai")

\* the value of field f of a Config that NewClient leaves at its start value
StartValue(f) ==
    CASE f = "Temperature" -> DefaultTemperature
      [] f = "MaxTokens" -> DefaultMaxTokens
      [] f \in {"Provider", "Model"} -> ""
      [] OTHER -> <<>>

\* no option of the sequence sets the temperature or the token limit
SetsNeither(ovs) == LastSet(ovs, "Temperature") = 0 /\ LastSet(ovs, "MaxTokens") = 0

\* C25: the base configuration of a client has temperature 0.7 and
\* max_tokens 1000 unless a construction option sets them; the construction
\* options are applied in their order on top of the defaults, so each field
\* has the value of the last option that sets it; and a dispatch whose
\* overrides set neither hands the provider the base's temperature and
\* max_tokens, 0.7 and 1000 on a client built without options for them.
C25_DefaultsDelivered ==
    /\ \A f \in Fields :
           BaseValue[f] = IF LastSet(ctorOpts, f) = 0
                          THEN StartValue(f)
                          ELSE ctorOpts[LastSet(ctorOpts, f)].arg
    /\ (AdapterReturned /\ adapter.via = "client" /\ SetsNeither(adapter.ovs)) =>
           /\ adapter.received.Temperature = BaseValue.Temperature
           /\ adapter.received.MaxTokens = BaseValue.MaxTokens
           /\ SetsNeither(ctorOpts) =>
                  /\ adapter.received.Temperature = DefaultTemperature
                  /\ adapter.received.MaxTokens = DefaultMaxTokens

\* NewClient() without options, then a call with WithProvider and WithModel only
C25_Witness ==
    /\ AdapterReturned /\ adapter.via = "client"
    /\ ctorOpts = <<>>
    /\ adapter.ovs = <<Opt("Provider", ProviderOpenAI), Opt("Model", "test-model")>>
    /\ adapter.received.Temperature = 7 /\ adapter.received.MaxTokens = 1000

-----------------------------------------------------------------------------
(* The network request: properties of a call step by step, under SpecFlight *)

\* the call has returned the zero value and an error that wraps what the
\* transport returned, which is the cancellation of the context or wraps it
FailedByCancellation ==
    /\ flight.cancelled
    /\ flight.phase = "returned"
    /\ flight.ret.err # Nil
    /\ flight.ret.zero
    /\ ErrorsIs(flight.ret.err, flight.cause)
    /\ ErrorsIs(flight.cause, ContextCanceled)

\* C21: when the caller's context is cancelled while the network request of
\* a capability call is under way, the call eventually returns, and what it
\* returns is a non-nil error that wraps the cancellation; it never returns
\* a result obtained after the cancellation and never goes on silently.
C21_CancellationAborts ==
    /\ [](flight.cancelled =>
              /\ flight.phase # "none"
              /\ flight.phase = "returned" => FailedByCancellation)
    /\ flight.cancelled ~> FailedByCancellation

\* GetObject cancelled while the body was read
C21_Witness ==
    /\ flight.cancelled /\ flight.phase = "returned"
    /\ flight.ep = "GetObject"
    /\ flight.cause = ContextCanceled
    /\ flight.ret.err = ReadFailure(ContextCanceled)

\* the call passes the checks of its entry point
FlightValid ==
    /\ flight.model # ""
    /\ flight.provider \in DOMAIN providers
    /\ flight.ep = "GetToolCalls" => flight.tools > 0

\* C22: one dispatch call invokes one capability of one provider, the one
\* of its entry point on the provider of its id, once when the checks pass
\* and never when one fails; a capability call sends at most one HTTP
\* request, at its start, and a call that failed sends no other.
C22_AtMostOnce ==
    /\ [](flight.phase # "none" =>
              /\ Len(flight.invoked) = (IF FlightValid THEN 1 ELSE 0)
              /\ \A i \in DOMAIN flight.invoked :
                     /\ flight.invoked[i].cap = flight.ep
                     /\ flight.invoked[i].impl = providers[flight.provider]
              /\ flight.sent <= Len(flight.invoked))
    /\ [][flight'.sent > flight.sent => flight.phase = "none"]_vars
    /\ [][flight.phase = "returned" => flight'.phase \in {"returned", "none"}]_vars

\* the connection was refused: one request, the failure returned
C22_Witness ==
    /\ flight.phase = "returned"
    /\ flight.cause = URLError(ConnectionRefused)
    /\ flight.sent = 1 /\ Len(flight.invoked) = 1
    /\ flight.ret.err = SendFailure(URLError(ConnectionRefused))

-----------------------------------------------------------------------------
(* Messages: properties of the constructors, under SpecMessages *)

\* C17: every Message built by SystemMessage, UserMessage, AssistantMessage
\* or ToolResultMessage, for any arguments, has a non-empty tool_call_id if
\* its role is Tool and an empty one otherwise.
C17_ToolCallIDMatchesRole ==
    \A i \in DOMAIN conv : (conv[i].Role = RoleTool) <=> (conv[i].ToolCallID # "")

-----------------------------------------------------------------------------
(* Requests: properties of the adapters up to the request, under SpecRequest *)

\* the contents of the System messages of a conversation
SystemContents(messages) ==
    {messages[i].Content : i \in {j \in 1..Len(messages) : messages[j].Role = RoleSystem}}

\* C24: the Anthropic adapter hoists every System message of the
\* configuration into the system parameter: no message of the wire list has
\* the System role, and the content of every System message is a piece of
\* the system parameter, for any number and position of System messages.
C24_SystemHoisted ==
    (wire.done /\ wire.kind = "anthropic") =>
        /\ \A i \in 1..Len(wire.request.Messages) : wire.request.Messages[i].Role # RoleSystem
        /\ \A content \in SystemContents(wire.before.Messages) :
               \E i \in 1..Len(wire.request.System) : wire.request.System[i] = content

\* C27: GetText and GetObject of both adapters leave the Config they are
\* handed as it was: every field, the Messages slice with its length and
\* its elements included, has after the call the value it had before, also
\* when GetObject puts its JSON instruction before the messages.
C27_ConfigNotModified ==
    wire.done => wire.sameFields /\ wire.after = wire.before

\* openai GetObject without a System message: the request starts with the
\* instruction and the Config still has its two messages
C27_Witness ==
    /\ wire.done /\ wire.kind = "openai" /\ wire.cap = "GetObject"
    /\ Len(wire.before.Messages) = 2
    /\ Len(wire.request.Messages) = 3
    /\ wire.request.Messages[1] = [Role |-> RoleSystem, Content |-> JSONInstruction]
    /\ wire.after.Messages = wire.before.Messages

\* the indices of the messages the adapter of a kind does not hoist
KeptAt(kind, messages) ==
    {i \in 1..Len(messages) : kind = "openai" \/ messages[i].Role # RoleSystem}

\* sequence wireList is the messages at the indices of S, in their order
\* and with their roles and contents, and nothing else
IsProjection(wireList, messages, S) ==
    /\ Len(wireList) = Cardinality(S)
    /\ \A i \in S :
           LET k == Cardinality({j \in S : j <= i})
           IN wireList[k].Role = messages[i].Role /\ wireList[k].Content = messages[i].Content

\* C30: the wire message list is, in the original order and with unchanged
\* role and content, the messages the capability converts that are not
\* hoisted (all for OpenAI, those without the System role for Anthropic),
\* none added, duplicated or dropped; the messages converted are those of
\* the configuration, after the JSON instruction when openai GetObject adds it.
C30_ConversionPreserves ==
    wire.done =>
        /\ IsProjection(wire.request.Messages, wire.handed, KeptAt(wire.kind, wire.handed))
        /\ \/ wire.handed = wire.before.Messages
           \/ /\ wire.kind = "openai" /\ wire.cap = "GetObject"
              /\ wire.handed = <<SystemMessage(JSONInstruction)>> \o wire.before.Messages

\* a Tool, a System and a User message through anthropic GetText
C30_Witness ==
    /\ wire.done /\ wire.kind = "anthropic" /\ wire.cap = "GetText"
    /\ wire.before.Messages = <<ToolResultMessage("call_123", "sunny"), SystemMessage("be kind"),
                                UserMessage("hi")>>
    /\ wire.request.Messages = <<[Role |-> RoleTool, Content |-> "sunny"],
                                 [Role |-> RoleUser, Content |-> "hi"]>>

-----------------------------------------------------------------------------
(* Concurrent calls: properties under SpecCalls *)

\* the arrays the Config reaches: those of its two lists and those of the
\* tool calls of its messages
Reach(h, config) ==
    ({config.Messages.ptr, config.Tools.ptr}
       \cup {Elems(h, config.Messages)[i].ToolCalls.ptr : i \in 1..config.Messages.len}) \ {0}

\* the call has its Config and has not returned
Live(caller) == running[caller].pc \in {"merged", "invoked", "wrote"}

\* the merge of the base as the construction left it with the options ovs
OwnMerge(ovs) == EffectiveOf(NewClient(ctorOpts).heap, NewClient(ctorOpts).defaults, ovs)

\* no two calls under way hold a Config that reaches the same array
NothingShared ==
    \A caller \in Callers, other \in Callers :
        caller # other /\ Live(caller) /\ Live(other) =>
            Reach(heap, running[caller].config) \cap Reach(heap, running[other].config) = {}

\* what the provider of a call was handed is the merge of the base with the
\* call's own options
OwnMergeReceived ==
    \A caller \in Callers :
        running[caller].pc \in {"invoked", "wrote"} =>
            running[caller].received = OwnMerge(running[caller].ovs)

\* C23: with the registry and the base set up before the calls begin, each
\* of the concurrent calls builds a configuration of its own that no other
\* call reads or writes, and its provider receives the merge of the base
\* with that call's own overrides only.
C23_OwnConfiguration ==
    /\ NothingShared
    /\ OwnMergeReceived
    /\ \A caller \in Callers :
           running[caller].pc = "invoked" =>
               ConfigValue(heap, running[caller].config) = running[caller].received

====
